---- MODULE Spec2Model ----
(***************************************************************************)
(* Model of the quote resolution and aggregation logic of market_mcp:      *)
(* app/server.py (dict based functions behind the MCP tools and the REST   *)
(* API), app/http_server.py (REST dispatch) and                            *)
(* app/services/finnhub_service.py (FinnhubService with domain models and  *)
(* domain exceptions).                                                     *)
(*                                                                         *)
(* Encoding of Python values:                                              *)
(*   - a str is a sequence of one-character strings;                       *)
(*   - an Optional value is a sequence of length <= 1: None is <<>>,       *)
(*     a present value x is <<x>>;                                         *)
(*   - a dict is a function from keys to Optional values; a key that is    *)
(*     absent is outside the DOMAIN (dict.get gives None for it);          *)
(*   - a list is a sequence.                                               *)
(* The provider (finnhub.Client) is the environment: for every identifier  *)
(* of a request it answers symbol_lookup and quote either by raising or    *)
(* with a payload.                                                         *)
(***************************************************************************)
EXTENDS Integers, Sequences, FiniteSets, TLC

VARIABLES
    finnhub_client,  \* server._finnhub_client: None when the import or the constructor failed
    service_client,  \* FinnhubService._client
    pc,              \* "idle": waiting for a request; "done": a request was processed
    request,         \* the operation called and its arguments
    provider,        \* what the provider does for each identifier of the request
    calls,           \* the provider calls the request made, in order
    outcome,         \* what the operation returned or raised
    inflight         \* the calls that are under way at the same time, with their locals

vars == <<finnhub_client, service_client, pc, request, provider, calls, outcome, inflight>>

\* Longest identifier list of a batch request.
MaxBatch == 3

(***************************************************************************)
(* Python values                                                           *)
(***************************************************************************)
None == <<>>

Some(x) == <<x>>

\* dict.get(key): None for an absent key, else the stored value.
Get(d, key) == IF key \in DOMAIN d THEN d[key] ELSE None

\* The empty dict {}.
EmptyDict == [k \in {} |-> None]

\* Truthiness of an Optional[str]: None and "" are falsy.
TruthyStr(o) == o # None /\ o[1] # <<>>

\* Truthiness of an Optional number: None and 0 are falsy.
TruthyNum(o) == o # None /\ o[1] # 0

\* Truthiness of an Optional dict: None and {} are falsy.
TruthyDict(o) == o # None /\ DOMAIN o[1] # {}

IsSpace(ch) == ch = " "

UpperChar(ch) ==
    CASE ch = "a" -> "A"
      [] ch = "b" -> "B"
      [] ch = "c" -> "C"
      [] ch = "d" -> "D"
      [] OTHER -> ch

\* str.upper()
Upper(s) == [i \in 1..Len(s) |-> UpperChar(s[i])]

RECURSIVE LStrip(_)
LStrip(s) == IF s # <<>> /\ IsSpace(Head(s)) THEN LStrip(Tail(s)) ELSE s

RECURSIVE RStrip(_)
RStrip(s) ==
    IF s # <<>> /\ IsSpace(s[Len(s)]) THEN RStrip(SubSeq(s, 1, Len(s) - 1)) ELSE s

\* str.strip()
Strip(s) == RStrip(LStrip(s))

(***************************************************************************)
(* app/server.py                                                           *)
(***************************************************************************)
\* Variant of _normalize_symbol that forgets upper().
normalize_symbol_no_upper(symbol) == Strip(IF TruthyStr(symbol) THEN symbol[1] ELSE <<>>)

\* _normalize_symbol: (symbol or "").strip().upper()
normalize_symbol(symbol) == Upper(Strip(IF TruthyStr(symbol) THEN symbol[1] ELSE <<>>))

\* One provider call as it is logged: the client method and its argument.
Call(fn, arg) == [fn |-> fn, arg |-> arg]

\* What a function hands back together with the provider calls it made.
Ret(value, cs) == [value |-> value, calls |-> cs]

\* The error strings of server.py; detail is the text formatted into the message.
Err(msg, detail) == [msg |-> msg, detail |-> detail]

FINNHUB == <<"f", "h">>

USD == <<"U", "S", "D">>

\* The dict a match of symbol_lookup is mapped to (server.py, lines 53-58).
MatchDict(match) ==
    [symbol |-> Get(match, "symbol"),
     description |-> Get(match, "description"),
     type |-> Get(match, "type"),
     displaySymbol |-> Get(match, "displaySymbol")]

\* search_company_by_name(company_name): sresp is the provider's answer to
\* symbol_lookup. Every exception of the try block gives [].
search_company_by_name(client, company_name, sresp) ==
    IF client = None
    THEN Ret(<<>>, <<>>)
    ELSE LET cs == <<Call("symbol_lookup", Some(company_name))>>
             results == IF TruthyDict(sresp.value) THEN sresp.value[1] ELSE EmptyDict
             found == Get(results, "result")
             matches == IF found # None /\ found[1] # <<>> THEN found[1] ELSE <<>>
         IN  IF sresp.raises
             THEN Ret(<<>>, cs)
             ELSE Ret([i \in 1..Len(matches) |-> MatchDict(matches[i])], cs)

\* Variant of the failure dict that drops the error.
FailedQuoteNoError(symbol, company_name, error) ==
    [symbol |-> symbol,
     price |-> None,
     currency |-> Some(USD),
     timestamp |-> None,
     source |-> Some(FINNHUB),
     company_name |-> company_name,
     error |-> None]

\* The failure-shaped quote dicts of get_single_stock_price.
FailedQuote(symbol, company_name, error) ==
    [symbol |-> symbol,
     price |-> None,
     currency |-> Some(USD),
     timestamp |-> None,
     source |-> Some(FINNHUB),
     company_name |-> company_name,
     error |-> Some(error)]

\* Variant of the error-only dict that carries null quote fields.
ErrorOnlyQuoteShaped(error) ==
    [symbol |-> None, price |-> None, error |-> Some(error), source |-> Some(FINNHUB)]

\* The dicts that carry an error and no quote field.
ErrorOnly(error) == [error |-> Some(error), source |-> Some(FINNHUB)]

\* "if not current_price": the test of server.py line 97, negated.
HasPrice(current_price) == TruthyNum(current_price)

\* Variant of the success dict that reads the optional fields with a
\* default of 0.
SuccessQuoteDefaultZero(final_symbol, resolved_company_name, quote) ==
    LET get0(key) == IF Get(quote, key) = None THEN Some(0) ELSE Get(quote, key)
    IN  [symbol |-> final_symbol,
         price |-> Get(quote, "c"),
         currency |-> Some(USD),
         timestamp |-> get0("t"),
         source |-> Some(FINNHUB),
         company_name |-> resolved_company_name,
         high |-> get0("h"),
         low |-> get0("l"),
         open |-> get0("o"),
         previous_close |-> get0("pc")]

\* Variant of the success dict that carries an error text next to the price.
SuccessQuoteWithError(final_symbol, resolved_company_name, quote) ==
    [symbol |-> final_symbol,
     price |-> Get(quote, "c"),
     currency |-> Some(USD),
     timestamp |-> Get(quote, "t"),
     source |-> Some(FINNHUB),
     company_name |-> resolved_company_name,
     high |-> Get(quote, "h"),
     low |-> Get(quote, "l"),
     open |-> Get(quote, "o"),
     previous_close |-> Get(quote, "pc"),
     error |-> Some(Err("", None))]

\* The dict of lines 107-118 for a quote that has a price.
SuccessQuote(final_symbol, resolved_company_name, quote) ==
    [symbol |-> final_symbol,
     price |-> Get(quote, "c"),
     currency |-> Some(USD),
     timestamp |-> Get(quote, "t"),
     source |-> Some(FINNHUB),
     company_name |-> resolved_company_name,
     high |-> Get(quote, "h"),
     low |-> Get(quote, "l"),
     open |-> Get(quote, "o"),
     previous_close |-> Get(quote, "pc")]

\* The try block of get_single_stock_price, lines 94-129: qresp is the
\* provider's answer to quote(final_symbol).
quote_block(final_symbol, resolved_company_name, qresp, cs0) ==
    LET cs == Append(cs0, Call("quote", final_symbol))
        quote == IF TruthyDict(qresp.value) THEN qresp.value[1] ELSE EmptyDict
        current_price == Get(quote, "c")
    IN  IF qresp.raises
        THEN Ret(FailedQuote(final_symbol, resolved_company_name,
                             Err("Finnhub API error", Some(qresp.exc))), cs)
        ELSE IF ~HasPrice(current_price)
        THEN Ret(FailedQuote(final_symbol, resolved_company_name,
                             Err("No price data available for", final_symbol)), cs)
        ELSE Ret(SuccessQuote(final_symbol, resolved_company_name, quote), cs)

\* Variant of the match selection that takes the last match.
last_match(matches) == matches[Len(matches)]

\* matches[0] of lines 89-90: the first match is the one that is quoted.
first_match(matches) == matches[1]

\* Variant of get_single_stock_price that resolves by company name first
\* when both identifiers are supplied.
get_single_stock_price_name_first(client, symbol, company_name, sresp, qresp) ==
    IF client = None
    THEN Ret(ErrorOnly(Err("Finnhub client not initialized.", None)), <<>>)
    ELSE IF TruthyStr(company_name)
    THEN LET s == search_company_by_name(client, company_name[1], sresp)
         IN  IF s.value = <<>>
             THEN Ret(FailedQuote(None, company_name,
                                  Err("No company found matching", company_name)),
                      s.calls)
             ELSE quote_block(Get(first_match(s.value), "symbol"),
                              Get(first_match(s.value), "description"), qresp, s.calls)
    ELSE IF TruthyStr(symbol)
    THEN quote_block(Some(normalize_symbol(symbol)), None, qresp, <<>>)
    ELSE Ret(ErrorOnly(Err("No symbol or company name provided", None)), <<>>)

\* get_single_stock_price(symbol=..., company_name=...)
get_single_stock_price(client, symbol, company_name, sresp, qresp) ==
    IF client = None
    THEN Ret(ErrorOnly(Err("Finnhub client not initialized.", None)), <<>>)
    ELSE IF TruthyStr(symbol)
    THEN quote_block(Some(normalize_symbol(symbol)), None, qresp, <<>>)
    ELSE IF TruthyStr(company_name)
    THEN LET s == search_company_by_name(client, company_name[1], sresp)
         IN  IF s.value = <<>>
             THEN Ret(FailedQuote(None, company_name,
                                  Err("No company found matching", company_name)),
                      s.calls)
             ELSE quote_block(Get(first_match(s.value), "symbol"),
                              Get(first_match(s.value), "description"), qresp, s.calls)
    ELSE Ret(ErrorOnly(Err("No symbol or company name provided", None)), <<>>)

\* State of the loop of a batch function: results, the two counters and the
\* provider calls made so far.
BatchStart == [results |-> <<>>, successful |-> 0, failed |-> 0, calls |-> <<>>]

\* One iteration of the loops of lines 139-145 and 163-169: r is what
\* get_single_stock_price gave for the identifier.
\* Variant of the loop body that counts every entry as successful.
BatchStepAllSuccessful(st, r) ==
    [results |-> Append(st.results, r.value),
     successful |-> st.successful + 1,
     failed |-> st.failed,
     calls |-> st.calls \o r.calls]

\* Variant of the loop body that puts a result in front of the earlier ones.
BatchStepPrepend(st, r) ==
    [results |-> <<r.value>> \o st.results,
     successful |-> IF Get(r.value, "price") # None THEN st.successful + 1 ELSE st.successful,
     failed |-> IF Get(r.value, "price") # None THEN st.failed ELSE st.failed + 1,
     calls |-> st.calls \o r.calls]

\* Variant of the loop body in which the provider calls of an identifier
\* come before those of the identifiers ahead of it.
BatchStepCallsAhead(st, r) ==
    [results |-> Append(st.results, r.value),
     successful |-> IF Get(r.value, "price") # None THEN st.successful + 1 ELSE st.successful,
     failed |-> IF Get(r.value, "price") # None THEN st.failed ELSE st.failed + 1,
     calls |-> r.calls \o st.calls]

BatchStep(st, r) ==
    [results |-> Append(st.results, r.value),
     successful |-> IF Get(r.value, "price") # None THEN st.successful + 1 ELSE st.successful,
     failed |-> IF Get(r.value, "price") # None THEN st.failed ELSE st.failed + 1,
     calls |-> st.calls \o r.calls]

\* The dict a batch function returns (lines 147-153 and 171-177).
BatchDict(st) ==
    [stocks |-> st.results,
     source |-> FINNHUB,
     count |-> Len(st.results),
     successful |-> st.successful,
     failed |-> st.failed]

RECURSIVE symbols_loop(_, _, _, _, _)
\* Variant of the loop that breaks at the first failed entry.
symbols_loop_stop_on_failure(client, symbols, prov, i, st) ==
    IF i > Len(symbols) \/ st.failed > 0
    THEN st
    ELSE symbols_loop(client, symbols, prov, i + 1,
            BatchStep(st, get_single_stock_price(client, Some(symbols[i]), None,
                                                 prov[i].search, prov[i].quote)))

symbols_loop(client, symbols, prov, i, st) ==
    IF i > Len(symbols)
    THEN st
    ELSE symbols_loop(client, symbols, prov, i + 1,
            BatchStep(st, get_single_stock_price(client, Some(symbols[i]), None,
                                                 prov[i].search, prov[i].quote)))

\* get_multiple_stock_prices(symbols): prov[i] is the provider's behaviour
\* while the i-th identifier is processed.
get_multiple_stock_prices(client, symbols, prov) ==
    LET st == symbols_loop(client, symbols, prov, 1, BatchStart)
    IN  Ret(BatchDict(st), st.calls)

RECURSIVE companies_loop(_, _, _, _, _)
companies_loop(client, company_names, prov, i, st) ==
    IF i > Len(company_names)
    THEN st
    ELSE companies_loop(client, company_names, prov, i + 1,
            BatchStep(st, get_single_stock_price(client, None, Some(company_names[i]),
                                                 prov[i].search, prov[i].quote)))

\* get_multiple_company_prices(company_names)
get_multiple_company_prices(client, company_names, prov) ==
    LET st == companies_loop(client, company_names, prov, 1, BatchStart)
    IN  Ret(BatchDict(st), st.calls)

\* Truthiness of an Optional[List[str]]: None and [] are falsy.
TruthyList(o) == o # None /\ o[1] # <<>>

\* The if chain shared by get_stock_price (lines 202-210) and call_tool
\* (lines 200-209).
\* Variant of the if chain that tests symbols before company_names.
dispatch_symbols_first(client, symbol, company_name, symbols, company_names, prov) ==
    IF TruthyList(symbols) /\ Len(symbols[1]) > 1
    THEN get_multiple_stock_prices(client, symbols[1], prov)
    ELSE IF TruthyList(symbols) /\ Len(symbols[1]) = 1
    THEN get_single_stock_price(client, Some(symbols[1][1]), None,
                                prov[1].search, prov[1].quote)
    ELSE IF TruthyList(company_names) /\ Len(company_names[1]) > 1
    THEN get_multiple_company_prices(client, company_names[1], prov)
    ELSE IF TruthyList(company_names) /\ Len(company_names[1]) = 1
    THEN get_single_stock_price(client, None, Some(company_names[1][1]),
                                prov[1].search, prov[1].quote)
    ELSE get_single_stock_price(client, symbol, company_name,
                                prov[1].search, prov[1].quote)

dispatch(client, symbol, company_name, symbols, company_names, prov) ==
    IF TruthyList(company_names) /\ Len(company_names[1]) > 1
    THEN get_multiple_company_prices(client, company_names[1], prov)
    ELSE IF TruthyList(company_names) /\ Len(company_names[1]) = 1
    THEN get_single_stock_price(client, None, Some(company_names[1][1]),
                                prov[1].search, prov[1].quote)
    ELSE IF TruthyList(symbols) /\ Len(symbols[1]) > 1
    THEN get_multiple_stock_prices(client, symbols[1], prov)
    ELSE IF TruthyList(symbols) /\ Len(symbols[1]) = 1
    THEN get_single_stock_price(client, Some(symbols[1][1]), None,
                                prov[1].search, prov[1].quote)
    ELSE get_single_stock_price(client, symbol, company_name,
                                prov[1].search, prov[1].quote)

\* The MCP tool get_stock_price(symbol, company_name, symbols, company_names).
get_stock_price(client, symbol, company_name, symbols, company_names, prov) ==
    IF client = None
    THEN Ret(ErrorOnly(Err("Finnhub client not initialized.", None)), <<>>)
    ELSE dispatch(client, symbol, company_name, symbols, company_names, prov)

(***************************************************************************)
(* app/http_server.py                                                      *)
(***************************************************************************)
\* What a route or a service method does: it returns a value or raises.
Return(value, cs) == [kind |-> "return", value |-> value, calls |-> cs]

Raise(exc, cs) == [kind |-> "raise", value |-> exc, calls |-> cs]

HTTPException(status_code) == [type |-> "HTTPException", status_code |-> status_code]

\* The try block of call_tool (lines 193-222): HTTPException 400 and 404 are
\* raised inside it.
call_tool_try(client, tool_name, arguments, prov) ==
    IF tool_name = "get_stock_price"
    THEN LET r == dispatch(client, Get(arguments, "symbol"), Get(arguments, "company_name"),
                           Get(arguments, "symbols"), Get(arguments, "company_names"), prov)
         IN  Return([result |-> r.value], r.calls)
    ELSE IF tool_name = "search_company"
    THEN IF ~TruthyStr(Get(arguments, "company_name"))
         THEN Raise(HTTPException(400), <<>>)
         ELSE LET s == search_company_by_name(client, Get(arguments, "company_name")[1],
                                              prov[1].search)
              IN  Return([result |-> s.value], s.calls)
    ELSE Raise(HTTPException(404), <<>>)

\* POST /mcp/tools/call: "except Exception" (lines 224-226) catches every
\* exception of the try block, HTTPException included, and raises
\* HTTPException 500 in its place.
call_tool(client, tool_name, arguments, prov) ==
    LET r == call_tool_try(client, tool_name, arguments, prov)
    IN  IF r.kind = "raise" THEN Raise(HTTPException(500), r.calls) ELSE r

\* GET /health: no provider call is made; the status is fixed and only the
\* finnhub entry depends on the client.
health_check(client) ==
    Return([status |-> "healthy",
            finnhub |-> IF client # None THEN "connected" ELSE "not_configured",
            server |-> "running"], <<>>)

(***************************************************************************)
(* The prompts of app/server.py and the route POST /mcp/prompts/get        *)
(***************************************************************************)
\* Python's builtin TypeError: format(None, ".2f").
TypeError == [type |-> "TypeError", resource_id |-> None]

Digit(n) == <<"0", "1", "2", "3", "4", "5", "6", "7", "8", "9">>[n + 1]

\* str(n) of an integer n >= 0.
RECURSIVE str_int(_)
str_int(n) == IF n < 10 THEN <<Digit(n)>> ELSE Append(str_int(n \div 10), Digit(n % 10))

\* a / b rounded to the nearest integer, b # 0: what the two decimals of a
\* ".2f" keep of a quotient counted in hundredths.
RoundDiv(a, b) ==
    LET ma == IF a < 0 THEN 0 - a ELSE a
        mb == IF b < 0 THEN 0 - b ELSE b
        q == (2 * ma + mb) \div (2 * mb)
    IN  IF (a < 0) = (b < 0) THEN q ELSE 0 - q

\* The text ".2f" (plus: "+.2f") gives for a number of h hundredths.
fixed2(h, plus) ==
    LET m == IF h < 0 THEN 0 - h ELSE h
        sign == IF h < 0 THEN <<"-">> ELSE IF plus THEN <<"+">> ELSE <<>>
    IN  sign \o str_int(m \div 100) \o <<".", Digit((m \div 10) % 10), Digit(m % 10)>>

\* f"{x:.2f}" of an Optional number: None stands for the TypeError that
\* formatting None raises.
format_2f(x) == IF x = None THEN None ELSE Some(fixed2(x[1] * 100, FALSE))

\* f"{x}" of an Optional str.
format_str(x) == IF x = None THEN <<"N", "o", "n", "e">> ELSE x[1]

\* analyze_stock_performance(symbol), lines 268-304 of server.py; the branch
\* of get_prompt (http_server.py lines 304-338) repeats the same statements.
\* The numbers of the text are kept as the strings the f-string gives.
analyze_stock_performance(client, symbol, sresp, qresp) ==
    LET r == get_single_stock_price(client, Some(symbol), None, sresp, qresp)
        price_data == r.value
        current == Get(price_data, "price")
        prev_close == Get(price_data, "previous_close")
        high == Get(price_data, "high")
        low == Get(price_data, "low")
        chg == IF TruthyNum(prev_close) THEN current[1] - prev_close[1] ELSE 0
        change_pct == IF TruthyNum(prev_close)
                      THEN RoundDiv(chg * 10000, prev_close[1]) ELSE 0
    IN  IF Get(price_data, "error") # None
        THEN Return([text |-> "Unable to analyze",
                     symbol |-> symbol,
                     error |-> price_data["error"][1]], r.calls)
        ELSE IF format_2f(current) = None \/ format_2f(prev_close) = None
                \/ format_2f(high) = None \/ format_2f(low) = None
        THEN Raise(TypeError, r.calls)
        ELSE Return([text |-> "Analyze the stock performance for",
                     symbol |-> symbol,
                     current |-> format_2f(current)[1],
                     previous_close |-> format_2f(prev_close)[1],
                     change |-> fixed2(chg * 100, FALSE),
                     change_pct |-> fixed2(change_pct, TRUE),
                     high |-> format_2f(high)[1],
                     low |-> format_2f(low)[1]], r.calls)

\* One entry of comparison_data (server.py lines 321-331): change_pct is
\* counted in hundredths of a percent.
comparison_item(stock) ==
    LET price == Get(stock, "price")
        prev_close == Get(stock, "previous_close")
    IN  [symbol |-> Get(stock, "symbol"),
         price |-> price,
         change_pct |-> IF TruthyNum(prev_close) /\ TruthyNum(price)
                        THEN RoundDiv((price[1] - prev_close[1]) * 10000, prev_close[1])
                        ELSE 0]

\* One row of the table (server.py line 336): None stands for the TypeError
\* of formatting a price that is None.
table_row(item) ==
    IF format_2f(item.price) = None
    THEN None
    ELSE Some([symbol |-> format_str(item.symbol),
               price |-> format_2f(item.price)[1],
               change_pct |-> fixed2(item.change_pct, TRUE)])

\* The loops of lines 320-336: the rows in the order of stocks, or None when
\* a row raises.
comparison_table(stocks) ==
    IF \E i \in 1..Len(stocks) : table_row(comparison_item(stocks[i])) = None
    THEN None
    ELSE Some([i \in 1..Len(stocks) |-> table_row(comparison_item(stocks[i]))[1]])

\* The statements compare_stocks (server.py lines 317-348) and get_prompt
\* (http_server.py lines 345-378) share once the list has 2 symbols.
compare_body(client, symbols, prov) ==
    LET prices == get_multiple_stock_prices(client, symbols, prov)
        table == comparison_table(prices.value.stocks)
    IN  IF table = None
        THEN Raise(TypeError, prices.calls)
        ELSE Return([text |-> "Compare the following stocks:", table |-> table[1]],
                    prices.calls)

\* compare_stocks(symbols)
compare_stocks(client, symbols, prov) ==
    IF Len(symbols) < 2
    THEN Return([text |-> "Please provide at least 2 stock symbols to compare.",
                 table |-> <<>>], <<>>)
    ELSE compare_body(client, symbols, prov)

\* The try block of get_prompt, lines 303-381.
get_prompt_try(client, prompt_name, arguments, prov) ==
    IF prompt_name = "analyze_stock_performance"
    THEN IF ~TruthyStr(Get(arguments, "symbol"))
         THEN Raise(HTTPException(400), <<>>)
         ELSE LET r == analyze_stock_performance(client, arguments["symbol"][1],
                                                 prov[1].search, prov[1].quote)
              IN  IF r.kind = "raise" THEN r ELSE Return([prompt |-> r.value], r.calls)
    ELSE IF prompt_name = "compare_stocks"
    THEN IF ~TruthyList(Get(arguments, "symbols")) \/ Len(arguments["symbols"][1]) < 2
         THEN Raise(HTTPException(400), <<>>)
         ELSE LET r == compare_body(client, arguments["symbols"][1], prov)
              IN  IF r.kind = "raise" THEN r ELSE Return([prompt |-> r.value], r.calls)
    ELSE Raise(HTTPException(404), <<>>)

\* POST /mcp/prompts/get: an HTTPException goes through (lines 383-384),
\* every other exception becomes HTTPException 500 (lines 385-387).
get_prompt(client, prompt_name, arguments, prov) ==
    \* r is what the try block gave, worked out once.
    CHOOSE answer \in
        {IF r.kind = "raise" /\ r.value.type # "HTTPException"
         THEN Raise(HTTPException(500), r.calls)
         ELSE r : r \in {get_prompt_try(client, prompt_name, arguments, prov)}} : TRUE

(***************************************************************************)
(* The resources and the route GET /mcp/resources/{resource_uri}           *)
(***************************************************************************)
\* "market://"
MARKET == <<"m", "a", "r", "k", "e", "t", ":", "/", "/">>

\* s.startswith(prefix)
startswith(s, prefix) ==
    Len(s) >= Len(prefix) /\ SubSeq(s, 1, Len(prefix)) = prefix

\* Variant of the prefixing that leaves the URI as it came.
with_prefix_never(resource_uri) == resource_uri

\* Lines 245-246: the market:// prefix is added when it is not there.
with_prefix(resource_uri) ==
    IF ~startswith(resource_uri, MARKET) THEN MARKET \o resource_uri ELSE resource_uri

\* The list "popular" of lines 250-261.
popular ==
    <<[symbol |-> "AAPL", name |-> "Apple Inc.", sector |-> "Technology"],
      [symbol |-> "MSFT", name |-> "Microsoft Corporation", sector |-> "Technology"],
      [symbol |-> "GOOGL", name |-> "Alphabet Inc.", sector |-> "Technology"],
      [symbol |-> "AMZN", name |-> "Amazon.com Inc.", sector |-> "Consumer Cyclical"],
      [symbol |-> "TSLA", name |-> "Tesla Inc.", sector |-> "Automotive"],
      [symbol |-> "META", name |-> "Meta Platforms Inc.", sector |-> "Technology"],
      [symbol |-> "NVDA", name |-> "NVIDIA Corporation", sector |-> "Technology"],
      [symbol |-> "JPM", name |-> "JPMorgan Chase & Co.", sector |-> "Financial"],
      [symbol |-> "V", name |-> "Visa Inc.", sector |-> "Financial"],
      [symbol |-> "WMT", name |-> "Walmart Inc.", sector |-> "Consumer Defensive"]>>

\* The list "indices" of lines 265-270.
indices ==
    <<[symbol |-> "^GSPC", name |-> "S&P 500", description |-> "US large-cap index"],
      [symbol |-> "^DJI", name |-> "Dow Jones Industrial Average", description |-> "US 30 major companies"],
      [symbol |-> "^IXIC", name |-> "NASDAQ Composite", description |-> "US tech-heavy index"],
      [symbol |-> "^RUT", name |-> "Russell 2000", description |-> "US small-cap index"]>>

\* get_resource(resource_uri): no statement of the try block raises anything
\* but the HTTPException 404, which "except HTTPException: raise" lets through.
get_resource(resource_uri) ==
    IF with_prefix(resource_uri) = <<"m", "a", "r", "k", "e", "t", ":", "/", "/", "p", "o", "p", "u", "l", "a", "r", "-", "s", "t", "o", "c", "k", "s">>
    THEN Return([data |-> popular], <<>>)
    ELSE IF with_prefix(resource_uri) = <<"m", "a", "r", "k", "e", "t", ":", "/", "/", "i", "n", "d", "i", "c", "e", "s">>
    THEN Return([data |-> indices], <<>>)
    ELSE Raise(HTTPException(404), <<>>)

(***************************************************************************)
(* The routes of app/http_server.py                                        *)
(***************************************************************************)
\* The routes the decorators of http_server.py register, a path being the
\* sequence of its segments.
Routes ==
    {[method |-> "GET", path |-> <<>>],
     [method |-> "GET", path |-> <<"health">>],
     [method |-> "GET", path |-> <<"mcp", "tools">>],
     [method |-> "POST", path |-> <<"mcp", "tools", "call">>],
     [method |-> "GET", path |-> <<"mcp", "resources">>],
     [method |-> "GET", path |-> <<"mcp", "prompts">>],
     [method |-> "POST", path |-> <<"mcp", "prompts", "get">>]}

\* The methods registered for a path; "/mcp/resources/{resource_uri:path}"
\* takes every path that goes on after /mcp/resources/.
MethodsOf(path) ==
    {route.method : route \in {r \in Routes : r.path = path}}
        \cup (IF Len(path) > 2 /\ SubSeq(path, 1, 2) = <<"mcp", "resources">>
              THEN {"GET"} ELSE {})

\* What the application answers when no handler is registered for the
\* request: 404 for an unknown path, 405 for a known path with another method.
unrouted(method, path) ==
    IF MethodsOf(path) = {}
    THEN Raise(HTTPException(404), <<>>)
    ELSE Raise(HTTPException(405), <<>>)

(***************************************************************************)
(* app/models.py                                                           *)
(***************************************************************************)
\* StockPriceData.validate_symbol and CompanyInfo.validate_symbol: None stands
\* for the ValueError of an empty symbol, else v.strip().upper().
validate_symbol(v) == IF v = <<>> THEN None ELSE Some(Upper(Strip(v)))

\* CompanyInfo(symbol=..., description=..., type=..., display_symbol=...):
\* None stands for the pydantic validation error (symbol is a required str).
CompanyInfo(symbol, description, type, display_symbol) ==
    IF symbol = None \/ validate_symbol(symbol[1]) = None
    THEN None
    ELSE Some([symbol |-> validate_symbol(symbol[1])[1],
               description |-> description,
               type |-> type,
               display_symbol |-> display_symbol])

\* StockPriceData(...) as get_quote builds it; company_name and error keep
\* their default None.
StockPriceData(symbol, price, timestamp, high, low, open, previous_close) ==
    [symbol |-> validate_symbol(symbol)[1],
     price |-> price,
     currency |-> USD,
     timestamp |-> timestamp,
     company_name |-> None,
     high |-> high,
     low |-> low,
     open |-> open,
     previous_close |-> previous_close,
     source |-> FINNHUB,
     error |-> None]

\* Python's builtin ZeroDivisionError.
ZeroDivisionError == [type |-> "ZeroDivisionError", resource_id |-> None]

Abs(n) == IF n < 0 THEN 0 - n ELSE n

RECURSIVE Gcd(_, _)
Gcd(a, b) == IF b = 0 THEN a ELSE Gcd(b, a % b)

\* Python's a / b on numbers: the quotient as a fraction in lowest terms with
\* a positive denominator, and ZeroDivisionError (None here) when b is 0.
truediv(a, b) ==
    IF b = 0
    THEN None
    ELSE LET g == Gcd(Abs(a), Abs(b))
             s == IF b < 0 THEN 0 - 1 ELSE 1
         IN  Some([num |-> s * (a \div g), den |-> s * (b \div g)])

\* StockPriceData.change
change(self) ==
    IF self.price # None /\ self.previous_close # None
    THEN Return(Some(self.price[1] - self.previous_close[1]), <<>>)
    ELSE Return(None, <<>>)

\* Variant of change_percent without the test of previous_close against 0.
change_percent_unguarded(self) ==
    IF self.price # None /\ self.previous_close # None
    THEN LET q == truediv((self.price[1] - self.previous_close[1]) * 100,
                          self.previous_close[1])
         IN  IF q = None THEN Raise(ZeroDivisionError, <<>>) ELSE Return(q, <<>>)
    ELSE Return(None, <<>>)

\* StockPriceData.change_percent: ((price - previous_close) / previous_close)
\* * 100, kept exact as one fraction.
change_percent(self) ==
    IF self.price # None /\ self.previous_close # None /\ self.previous_close[1] # 0
    THEN LET q == truediv((self.price[1] - self.previous_close[1]) * 100,
                          self.previous_close[1])
         IN  IF q = None THEN Raise(ZeroDivisionError, <<>>) ELSE Return(q, <<>>)
    ELSE Return(None, <<>>)

(***************************************************************************)
(* app/exceptions.py                                                       *)
(***************************************************************************)
\* The domain exceptions; resource_id is details["resource_id"] of a
\* ResourceNotFoundError and None for the others.
ServiceUnavailableError == [type |-> "ServiceUnavailableError", resource_id |-> None]

FinnhubAPIError == [type |-> "FinnhubAPIError", resource_id |-> None]

SymbolNotFoundError(symbol) == [type |-> "SymbolNotFoundError", resource_id |-> symbol]

\* Variant of CompanyNotFoundError that carries the stripped query.
CompanyNotFoundErrorStripped(company_name) ==
    [type |-> "CompanyNotFoundError",
     resource_id |-> IF company_name = None THEN None ELSE Some(Strip(company_name[1]))]

CompanyNotFoundError(company_name) ==
    [type |-> "CompanyNotFoundError", resource_id |-> company_name]

(***************************************************************************)
(* app/services/finnhub_service.py                                         *)
(***************************************************************************)
\* FinnhubService.is_available
is_available(self_client) == self_client # None

\* The loop of lines 106-120: a match whose CompanyInfo fails validation is
\* skipped.
RECURSIVE companies_of(_)
companies_of(matches) ==
    IF matches = <<>>
    THEN <<>>
    ELSE LET match == Head(matches)
             company == CompanyInfo(IF "symbol" \in DOMAIN match
                                    THEN match["symbol"] ELSE Some(<<>>),
                                    Get(match, "description"), Get(match, "type"),
                                    Get(match, "displaySymbol"))
         IN  company \o companies_of(Tail(matches))

\* Variant of the handler that swallows the failure and gives no companies.
search_companies_except_empty(cs) == Return(<<>>, cs)

\* Variant of the handler that lets the provider's exception through.
search_companies_except_reraise(cs) ==
    Raise([type |-> "ConnectionError", resource_id |-> None], cs)

\* The except clause of search_companies, lines 123-129: whatever the try
\* block raised is raised again as FinnhubAPIError.
search_companies_except(cs) == Raise(FinnhubAPIError, cs)

\* FinnhubService.search_companies(query)
search_companies(self_client, query, sresp) ==
    IF ~is_available(self_client)
    THEN Raise(ServiceUnavailableError, <<>>)
    ELSE IF ~TruthyStr(query) \/ Strip(query[1]) = <<>>
    THEN Return(<<>>, <<>>)
    ELSE LET cs == <<Call("symbol_lookup", query)>>
             result == IF TruthyDict(sresp.value) THEN sresp.value[1] ELSE EmptyDict
             \* .get("result", []): a key that is present with None gives None,
             \* and len(None) raises inside the try block.
             matches == IF "result" \in DOMAIN result THEN result["result"] ELSE Some(<<>>)
         IN  IF sresp.raises \/ matches = None
             THEN search_companies_except(cs)
             ELSE Return(companies_of(matches[1]), cs)

\* FinnhubService.get_quote(symbol)
get_quote(self_client, symbol, qresp) ==
    IF ~is_available(self_client)
    THEN Raise(ServiceUnavailableError, <<>>)
    ELSE IF ~TruthyStr(symbol) \/ Strip(symbol[1]) = <<>>
    THEN Raise(SymbolNotFoundError(symbol), <<>>)
    ELSE LET sym == Upper(Strip(symbol[1]))
             cs == <<Call("quote", Some(sym))>>
             quote == qresp.value
         IN  IF qresp.raises
             THEN Raise(FinnhubAPIError, cs)
             ELSE IF ~TruthyDict(quote) \/ Get(quote[1], "c") = None
             THEN Raise(SymbolNotFoundError(Some(sym)), cs)
             ELSE Return(StockPriceData(sym, Get(quote[1], "c"), Get(quote[1], "t"),
                                        Get(quote[1], "h"), Get(quote[1], "l"),
                                        Get(quote[1], "o"), Get(quote[1], "pc")), cs)

\* FinnhubService.get_quote_by_company_name(company_name)
get_quote_by_company_name(self_client, company_name, sresp, qresp) ==
    LET companies == search_companies(self_client, company_name, sresp)
    IN  IF companies.kind = "raise"
        THEN companies
        ELSE IF companies.value = <<>>
        THEN Raise(CompanyNotFoundError(company_name), companies.calls)
        ELSE LET best_match == companies.value[1]
                 quote == get_quote(self_client, Some(best_match.symbol), qresp)
             IN  IF quote.kind = "raise"
                 THEN Raise(quote.value, companies.calls \o quote.calls)
                 ELSE Return([quote.value EXCEPT !.company_name = best_match.description],
                             companies.calls \o quote.calls)

\* The symbol FinnhubService.health_check asks a quote for.
AAPL == <<"A", "A", "P", "L">>

\* Variant of the health check that lets the provider's exception through.
FinnhubService_health_check_raising(self_client, qresp, elapsed_ms) ==
    IF ~is_available(self_client)
    THEN Return([status |-> "unhealthy",
                 message |-> Err("Service not initialized", None),
                 response_time_ms |-> None], <<>>)
    ELSE LET cs == <<Call("quote", Some(AAPL))>>
         IN  IF qresp.raises
             THEN Raise(FinnhubAPIError, cs)
             ELSE Return([status |-> "healthy",
                          message |-> Err("Connected", None),
                          response_time_ms |-> Some(elapsed_ms)], cs)

\* FinnhubService.health_check(): elapsed_ms is the time the provider's call
\* took; the payload of the answer is not looked at.
FinnhubService_health_check(self_client, qresp, elapsed_ms) ==
    IF ~is_available(self_client)
    THEN Return([status |-> "unhealthy",
                 message |-> Err("Service not initialized", None),
                 response_time_ms |-> None], <<>>)
    ELSE LET cs == <<Call("quote", Some(AAPL))>>
         IN  IF qresp.raises
             THEN Return([status |-> "unhealthy",
                          message |-> Err("Health check failed:", Some(qresp.exc)),
                          response_time_ms |-> None], cs)
             ELSE Return([status |-> "healthy",
                          message |-> Err("Connected", None),
                          response_time_ms |-> Some(elapsed_ms)], cs)

(***************************************************************************)
(* The provider: answers of finnhub.Client.quote and symbol_lookup         *)
(***************************************************************************)
Answers(value) == [raises |-> FALSE, exc |-> <<>>, value |-> value]

Raises(exc) == [raises |-> TRUE, exc |-> exc, value |-> None]

ConnectionError == <<"E">>

QuoteFull ==
    [c |-> Some(5), h |-> Some(6), l |-> Some(4), o |-> Some(5), pc |-> Some(4), t |-> Some(100)]

\* What the provider sends for a symbol it does not know: every number 0.
QuoteZero ==
    [c |-> Some(0), h |-> Some(0), l |-> Some(0), o |-> Some(0), pc |-> Some(0), t |-> Some(0)]

QuoteNullPrice ==
    [c |-> None, h |-> Some(6), l |-> Some(4), o |-> Some(5), pc |-> Some(4), t |-> Some(100)]

QuoteNoPriceKey == [h |-> Some(6), l |-> Some(4), pc |-> Some(4)]

QuoteOnlyPrice == [c |-> Some(7)]

\* A price with a null high, no open and a previous close of 0.
QuotePartial == [c |-> Some(5), h |-> None, l |-> Some(4), pc |-> Some(0), t |-> Some(100)]

QuoteResponses ==
    {Raises(ConnectionError), Answers(None), Answers(Some(EmptyDict)),
     Answers(Some(QuoteFull)), Answers(Some(QuoteZero)), Answers(Some(QuoteNullPrice)),
     Answers(Some(QuoteNoPriceKey)), Answers(Some(QuoteOnlyPrice)),
     Answers(Some(QuotePartial))}

MatchAB ==
    [symbol |-> Some(<<"A", "B">>), description |-> Some(<<"A", "b", " ", "I", "n", "c">>),
     type |-> Some(<<"C", "S">>), displaySymbol |-> Some(<<"A", "B">>)]

MatchCD ==
    [symbol |-> Some(<<"C", "D">>), description |-> Some(<<"C", "d", " ", "L", "t", "d">>),
     type |-> Some(<<"C", "S">>), displaySymbol |-> Some(<<"C", "D">>)]

\* A match whose symbol is lower case with surrounding blanks and that has no description.
MatchLower == [symbol |-> Some(<<" ", "c", "d", " ">>), type |-> Some(<<"C", "S">>)]

\* Matches that lack a symbol: no key, a null, an empty string.
MatchNoSymbol == [description |-> Some(<<"N", "o">>)]

MatchNullSymbol == [symbol |-> None, description |-> Some(<<"N", "u">>)]

MatchEmptySymbol == [symbol |-> Some(<<>>), description |-> Some(<<"E", "m">>)]

\* A match whose symbol is blank: not empty, and empty once stripped.
MatchBlankSymbol == [symbol |-> Some(<<" ">>), description |-> Some(<<"B", "l">>)]

SearchResult(matches) == Answers(Some([result |-> Some(matches)]))

SearchResponses ==
    {Raises(ConnectionError), Answers(None), Answers(Some(EmptyDict)),
     Answers(Some([result |-> None])), SearchResult(<<>>),
     SearchResult(<<MatchAB, MatchCD>>), SearchResult(<<MatchCD, MatchAB>>),
     SearchResult(<<MatchLower, MatchAB>>), SearchResult(<<MatchNoSymbol, MatchCD>>),
     SearchResult(<<MatchNullSymbol, MatchEmptySymbol>>),
     SearchResult(<<MatchBlankSymbol, MatchAB>>)}

\* The provider's behaviour for one identifier.
Behaviour(sresp, qresp) == [search |-> sresp, quote |-> qresp]

Behaviours == {Behaviour(s, q) : s \in SearchResponses, q \in QuoteResponses}

\* The behaviours drawn for the identifiers of a batch: a price, no price, a
\* price of zero and an exception; no match, two matches and an exception.
BatchQuoteResponses ==
    {Raises(ConnectionError), Answers(Some(QuoteFull)), Answers(Some(QuoteZero)),
     Answers(Some(QuoteNullPrice))}

BatchSearchResponses ==
    {Raises(ConnectionError), SearchResult(<<>>), SearchResult(<<MatchAB, MatchCD>>)}

(***************************************************************************)
(* The arguments of the requests                                           *)
(***************************************************************************)
SymbolStrings ==
    {<<>>, <<" ">>, <<" ", "a", "b", " ">>, <<"C", "D">>, <<"c", "D">>}

NameStrings == {<<>>, <<" ">>, <<"A", "b">>, <<" ", "c", "d">>}

OptionalOf(S) == {None} \cup {Some(x) : x \in S}

\* The lists of at most n elements of S.
ListsOf(S, n) == UNION {[1..k -> S] : k \in 0..n}

BatchSymbols == {<<>>, <<" ">>, <<" ", "a", "b", " ">>, <<"C", "D">>, <<"c", "D">>}

BatchNames == {<<>>, <<"A", "b">>}

NoRequest == [op |-> "none"]

NoOutcome == [kind |-> "none"]

(***************************************************************************)
(* The requests                                                            *)
(***************************************************************************)
\* What every request leaves alone: the two client handles.
Clients == <<finnhub_client, service_client>>

\* A function of server.py was called with args and handed back r.
Served(op, args, prov, r) ==
    /\ pc' = "done"
    /\ request' = [op |-> op, args |-> args]
    /\ provider' = prov
    /\ calls' = r.calls
    /\ outcome' = [kind |-> "return", value |-> r.value]
    /\ UNCHANGED <<Clients, inflight>>

\* A route or a service method was called with args and returned or raised.
Answered(op, args, prov, r) ==
    /\ pc' = "done"
    /\ request' = [op |-> op, args |-> args]
    /\ provider' = prov
    /\ calls' = r.calls
    /\ outcome' = [kind |-> r.kind, value |-> r.value]
    /\ UNCHANGED <<Clients, inflight>>

GetSingleStockPrice ==
    /\ pc = "idle"
    /\ \E symbol \in OptionalOf(SymbolStrings), company_name \in OptionalOf(NameStrings),
          b \in Behaviours :
            Served("get_single_stock_price",
                   [symbol |-> symbol, company_name |-> company_name], <<b>>,
                   get_single_stock_price(finnhub_client, symbol, company_name,
                                          b.search, b.quote))

GetMultipleStockPrices ==
    /\ pc = "idle"
    /\ \E symbols \in ListsOf(BatchSymbols, MaxBatch) :
         \E prov \in [1..Len(symbols) -> {Behaviour(Raises(ConnectionError), q) :
                                            q \in BatchQuoteResponses}] :
            Served("get_multiple_stock_prices", [symbols |-> symbols], prov,
                   get_multiple_stock_prices(finnhub_client, symbols, prov))

GetMultipleCompanyPrices ==
    /\ pc = "idle"
    /\ \E company_names \in ListsOf(BatchNames, MaxBatch) :
         \E prov \in [1..Len(company_names) ->
                        {Behaviour(s, q) : s \in BatchSearchResponses,
                                           q \in BatchQuoteResponses \ {Answers(Some(QuoteZero))}}] :
            Served("get_multiple_company_prices", [company_names |-> company_names], prov,
                   get_multiple_company_prices(finnhub_client, company_names, prov))

\* The list arguments of a dispatched request: absent, empty, one element, two.
DispatchSymbols ==
    {None, Some(<<>>), Some(<<<<" ", "a", "b", " ">>>>),
     Some(<<<<"C", "D">>, <<" ", "a", "b", " ">>>>)}

DispatchNames ==
    {None, Some(<<>>), Some(<<<<"A", "b">>>>), Some(<<<<" ", "c", "d">>, <<"A", "b">>>>)}

DispatchArguments ==
    [symbol : {None, Some(<<"c", "D">>)},
     company_name : {None, Some(<<"A", "b">>)},
     symbols : DispatchSymbols,
     company_names : DispatchNames]

DispatchBehaviours ==
    {Behaviour(s, q) : s \in {SearchResult(<<>>), SearchResult(<<MatchAB, MatchCD>>)},
                       q \in {Raises(ConnectionError), Answers(Some(QuoteFull)),
                              Answers(Some(QuoteNullPrice))}}

\* The MCP tool get_stock_price.
GetStockPrice ==
    /\ pc = "idle"
    /\ \E a \in DispatchArguments, prov \in [1..2 -> DispatchBehaviours] :
            Served("get_stock_price", a, prov,
                   get_stock_price(finnhub_client, a.symbol, a.company_name,
                                   a.symbols, a.company_names, prov))

ToolNames == {"get_stock_price", "search_company", "get_weather"}

\* POST /mcp/tools/call
CallTool ==
    /\ pc = "idle"
    /\ \E tool \in ToolNames, a \in DispatchArguments, prov \in [1..2 -> DispatchBehaviours] :
            Answered("call_tool", [tool |-> tool, arguments |-> a], prov,
                     call_tool(finnhub_client, tool, a, prov))

\* The MCP tool search_company, which is search_company_by_name.
SearchCompany ==
    /\ pc = "idle"
    /\ \E company_name \in NameStrings, s \in SearchResponses :
            Served("search_company", [company_name |-> company_name],
                   <<Behaviour(s, Raises(ConnectionError))>>,
                   search_company_by_name(finnhub_client, company_name, s))

ServiceSearchCompanies ==
    /\ pc = "idle"
    /\ \E query \in OptionalOf(NameStrings), s \in SearchResponses :
            Answered("FinnhubService.search_companies", [query |-> query],
                     <<Behaviour(s, Raises(ConnectionError))>>,
                     search_companies(service_client, query, s))

ServiceGetQuote ==
    /\ pc = "idle"
    /\ \E symbol \in OptionalOf(SymbolStrings), q \in QuoteResponses :
            Answered("FinnhubService.get_quote", [symbol |-> symbol],
                     <<Behaviour(Raises(ConnectionError), q)>>,
                     get_quote(service_client, symbol, q))

ServiceGetQuoteByCompanyName ==
    /\ pc = "idle"
    /\ \E company_name \in OptionalOf(NameStrings), b \in Behaviours :
            Answered("FinnhubService.get_quote_by_company_name",
                     [company_name |-> company_name], <<b>>,
                     get_quote_by_company_name(service_client, company_name,
                                               b.search, b.quote))

\* The prices a StockPriceData is built with: None, 0 and numbers that give
\* a gain, a loss and no change.
Prices == {None, Some(0), Some(4), Some(5), Some(0 - 2)}

\* A StockPriceData built with price and previous_close.
PriceData(price, previous_close) ==
    StockPriceData(<<"C", "D">>, price, None, None, None, None, previous_close)

StockPriceDataChange ==
    /\ pc = "idle"
    /\ \E price \in Prices, previous_close \in Prices :
            Answered("StockPriceData.change",
                     [self |-> PriceData(price, previous_close)], <<>>,
                     change(PriceData(price, previous_close)))

StockPriceDataChangePercent ==
    /\ pc = "idle"
    /\ \E price \in Prices, previous_close \in Prices :
            Answered("StockPriceData.change_percent",
                     [self |-> PriceData(price, previous_close)], <<>>,
                     change_percent(PriceData(price, previous_close)))

\* The milliseconds a provider call may take.
ElapsedMs == {0, 3}

ServiceHealthCheck ==
    /\ pc = "idle"
    /\ \E qresp \in QuoteResponses, elapsed_ms \in ElapsedMs :
            Answered("FinnhubService.health_check", [elapsed_ms |-> elapsed_ms],
                     <<[quote |-> qresp]>>,
                     FinnhubService_health_check(service_client, qresp, elapsed_ms))

HealthCheck ==
    /\ pc = "idle"
    /\ Answered("health_check", <<>>, <<>>, health_check(finnhub_client))

\* The symbols and the provider answers of the prompts.
PromptSymbols == {<<>>, <<" ", "a", "b", " ">>, <<"C", "D">>}

CompareSymbols == {<<" ", "a", "b", " ">>, <<"C", "D">>}

PromptBehaviours ==
    {Behaviour(Raises(ConnectionError), q) :
        q \in {Raises(ConnectionError), Answers(Some(QuoteFull)),
               Answers(Some(QuotePartial))}}

PromptNames == {"analyze_stock_performance", "compare_stocks", "summarize"}

AnalyzeStockPerformance ==
    /\ pc = "idle"
    /\ \E symbol \in PromptSymbols, q \in QuoteResponses :
            Answered("analyze_stock_performance", [symbol |-> symbol],
                     <<Behaviour(Raises(ConnectionError), q)>>,
                     analyze_stock_performance(finnhub_client, symbol,
                                               Raises(ConnectionError), q))

CompareStocks ==
    /\ pc = "idle"
    /\ \E symbols \in ListsOf(CompareSymbols, MaxBatch) :
         \E prov \in [1..Len(symbols) -> PromptBehaviours] :
            Answered("compare_stocks", [symbols |-> symbols], prov,
                     compare_stocks(finnhub_client, symbols, prov))

\* The provider is asked once per symbol of the list, and once for the
\* symbol of an analysis.
GetPrompt ==
    /\ pc = "idle"
    /\ \E prompt_name \in PromptNames, symbol \in OptionalOf(PromptSymbols),
          symbols \in OptionalOf(ListsOf(CompareSymbols, MaxBatch)) :
         \E prov \in [1..(IF symbols = None \/ symbols = Some(<<>>)
                          THEN 1 ELSE Len(symbols[1])) -> PromptBehaviours] :
            Answered("get_prompt",
                     [prompt |-> prompt_name,
                      arguments |-> [symbol |-> symbol, symbols |-> symbols]], prov,
                     get_prompt(finnhub_client, prompt_name,
                                [symbol |-> symbol, symbols |-> symbols], prov))

\* The URIs asked for: the two resources with and without the prefix, and
\* URIs that name no resource.
ResourceURIs ==
    {<<"p", "o", "p", "u", "l", "a", "r", "-", "s", "t", "o", "c", "k", "s">>,
     <<"m", "a", "r", "k", "e", "t", ":", "/", "/", "p", "o", "p", "u", "l", "a", "r", "-", "s", "t", "o", "c", "k", "s">>,
     <<"i", "n", "d", "i", "c", "e", "s">>,
     <<"m", "a", "r", "k", "e", "t", ":", "/", "/", "i", "n", "d", "i", "c", "e", "s">>,
     <<>>,
     <<"m", "a", "r", "k", "e", "t", ":", "/", "/">>,
     <<"m", "a", "r", "k", "e", "t", ":", "/", "i", "n", "d", "i", "c", "e", "s">>,
     <<"I", "n", "d", "i", "c", "e", "s">>,
     <<"m", "a", "r", "k", "e", "t", ":", "/", "/", "m", "a", "r", "k", "e", "t", ":", "/", "/", "i", "n", "d", "i", "c", "e", "s">>,
     <<"s", "t", "o", "c", "k", "s">>}

GetResource ==
    /\ pc = "idle"
    /\ \E resource_uri \in ResourceURIs :
            Answered("get_resource", [resource_uri |-> resource_uri], <<>>,
                     get_resource(resource_uri))

\* Paths that are asked for.
RequestPaths ==
    {<<"mcp", "tools", "call", "stream">>, <<"mcp", "tools", "call">>,
     <<"mcp", "tools">>, <<"mcp", "prompts", "get">>, <<"health">>,
     <<"mcp", "resources", "indices">>, <<"mcp">>}

\* A request for which no handler is registered; body is the tool call it
\* carries.
Unrouted ==
    /\ pc = "idle"
    /\ \E method \in {"GET", "POST"}, path \in RequestPaths, tool \in ToolNames,
          a \in DispatchArguments :
            /\ method \notin MethodsOf(path)
            /\ Answered("app", [method |-> method, path |-> path,
                                body |-> [tool |-> tool, arguments |-> a]], <<>>,
                        unrouted(method, path))

\* Two calls can be under way at once.
Slots == {1, 2}

\* A slot no call runs in; i counts the identifiers a batch has processed and
\* st holds the locals of the call.
NoCall ==
    [op |-> "none", args |-> <<>>, prov |-> <<>>, i |-> 0, st |-> BatchStart,
     outcome |-> NoOutcome]

NoneInFlight == [s \in Slots |-> NoCall]

\* Respond: the result goes to the caller; nothing of the request is kept.
Respond ==
    /\ pc = "done"
    /\ pc' = "idle"
    /\ request' = NoRequest
    /\ provider' = <<>>
    /\ calls' = <<>>
    /\ outcome' = NoOutcome
    /\ UNCHANGED <<Clients, inflight>>

Init ==
    /\ finnhub_client \in {None, Some("client")}
    /\ service_client = Some("client")
    /\ pc = "idle"
    /\ request = NoRequest
    /\ provider = <<>>
    /\ calls = <<>>
    /\ outcome = NoOutcome
    /\ inflight = NoneInFlight

Next ==
    \/ GetSingleStockPrice
    \/ GetMultipleStockPrices
    \/ GetMultipleCompanyPrices
    \/ GetStockPrice
    \/ CallTool
    \/ SearchCompany
    \/ ServiceSearchCompanies
    \/ ServiceGetQuote
    \/ ServiceGetQuoteByCompanyName
    \/ StockPriceDataChange
    \/ StockPriceDataChangePercent
    \/ HealthCheck
    \/ ServiceHealthCheck
    \/ AnalyzeStockPerformance
    \/ CompareStocks
    \/ GetPrompt
    \/ GetResource
    \/ Unrouted
    \/ Respond

Spec == Init /\ [][Next]_vars

(***************************************************************************)
(* Calls under way at the same time.  A call keeps what it has computed    *)
(* so far in its own locals: a batch function its accumulators between two *)
(* identifiers (server.py, 136-145 and 160-169), get_quote_by_company_name *)
(* the companies found between the search and the quote                    *)
(* (finnhub_service.py, 208-222).  Each step below is the code between two *)
(* such points; steps of the two slots follow one another in any order.    *)
(***************************************************************************)
BatchOps == {"get_multiple_stock_prices", "get_multiple_company_prices"}

\* The behaviours drawn for an identifier of a batch under way: a match and a
\* price, or no match and an exception.
InFlightBehaviours ==
    {Behaviour(SearchResult(<<MatchAB, MatchCD>>), Answers(Some(QuoteFull))),
     Behaviour(SearchResult(<<>>), Raises(ConnectionError))}

InFlightQuotes == {Raises(ConnectionError), Answers(Some(QuoteFull)), Answers(Some(QuoteZero))}

InFlightSearches ==
    {Raises(ConnectionError), SearchResult(<<>>), SearchResult(<<MatchAB, MatchCD>>)}

\* The calls that can be started in a slot.
InFlightCalls ==
    {[op |-> "get_single_stock_price",
      args |-> [symbol |-> symbol, company_name |-> company_name], prov |-> <<b>>] :
        symbol \in {None, Some(<<"c", "D">>)}, company_name \in {None, Some(<<"A", "b">>)},
        b \in InFlightBehaviours}
    \cup UNION {{[op |-> "get_multiple_stock_prices", args |-> [symbols |-> symbols],
                  prov |-> prov] : prov \in [1..Len(symbols) -> InFlightBehaviours]} :
                    symbols \in ListsOf({<<"C", "D">>}, MaxBatch)}
    \cup UNION {{[op |-> "get_multiple_company_prices",
                  args |-> [company_names |-> company_names], prov |-> prov] :
                    prov \in [1..Len(company_names) -> InFlightBehaviours]} :
                    company_names \in ListsOf({<<"A", "b">>}, MaxBatch)}
    \cup {[op |-> "FinnhubService.get_quote", args |-> [symbol |-> Some(symbol)],
           prov |-> <<Behaviour(Raises(ConnectionError), q)>>] :
            symbol \in {<<"A", "B">>, <<" ", "a", "b", " ">>}, q \in InFlightQuotes}
    \cup {[op |-> "FinnhubService.get_quote_by_company_name",
           args |-> [company_name |-> Some(<<"A", "b">>)], prov |-> <<Behaviour(s, q)>>] :
            s \in InFlightSearches, q \in InFlightQuotes}

\* The other slot.
other(s) == 3 - s

\* results, successful and failed are locals of the call (server.py, 136-138
\* and 160-162): the loop of slot s works on its own.
\* Variant in which the accumulators are module-level and every batch works
\* on those of the first one.
loop_state_shared(s) ==
    IF inflight[1].op \in BatchOps THEN inflight[1].st ELSE inflight[s].st

loop_state(s) == inflight[s].st

\* get_quote builds a new StockPriceData in every call (finnhub_service.py,
\* 171-181): what slot s gets back is the object just built.
\* Variant in which the service keeps the object it built for a symbol and
\* hands it out again to the next call for that symbol.
new_quote_kept(s, quote) ==
    LET o == inflight[other(s)]
    IN  IF /\ o.op \in {"FinnhubService.get_quote", "FinnhubService.get_quote_by_company_name"}
           /\ o.outcome # NoOutcome
           /\ o.outcome.kind = "return"
           /\ o.outcome.value.symbol = quote.symbol
        THEN o.outcome.value
        ELSE quote

new_quote(s, quote) == quote

\* The identifier a batch under way processes in iteration i.
identifier(c, i) ==
    IF c.op = "get_multiple_stock_prices" THEN c.args.symbols[i] ELSE c.args.company_names[i]

\* The call moved on: its slot holds the new locals and, once it has ended,
\* what it returned or raised.
MovedOn(s, i, st, result) ==
    /\ inflight' = [inflight EXCEPT ![s] = [@ EXCEPT !.i = i, !.st = st, !.outcome = result]]
    /\ UNCHANGED <<finnhub_client, service_client, pc, request, provider, calls, outcome>>

\* A call comes in while the other slot may be busy.
StartCall ==
    \E s \in Slots, c \in InFlightCalls :
        /\ inflight[s] = NoCall
        /\ inflight' = [inflight EXCEPT ![s] =
                            [op |-> c.op, args |-> c.args, prov |-> c.prov, i |-> 0,
                             st |-> BatchStart, outcome |-> NoOutcome]]
        /\ UNCHANGED <<finnhub_client, service_client, pc, request, provider, calls, outcome>>

\* get_single_stock_price from its first line to its return.
SingleCall ==
    \E s \in Slots :
        /\ inflight[s].op = "get_single_stock_price"
        /\ inflight[s].outcome = NoOutcome
        /\ \E r \in {get_single_stock_price(finnhub_client, inflight[s].args.symbol,
                                            inflight[s].args.company_name,
                                            inflight[s].prov[1].search,
                                            inflight[s].prov[1].quote)} :
                MovedOn(s, 1, inflight[s].st, [kind |-> "return", value |-> r.value])

\* One iteration of the loop of a batch function (lines 139-145, 163-169).
LoopIteration ==
    \E s \in Slots :
        /\ inflight[s].op \in BatchOps
        /\ inflight[s].outcome = NoOutcome
        /\ inflight[s].i < Len(inflight[s].prov)
        /\ \E i \in {inflight[s].i + 1} :
           \E r \in {IF inflight[s].op = "get_multiple_stock_prices"
                     THEN get_single_stock_price(finnhub_client,
                                                 Some(identifier(inflight[s], i)), None,
                                                 inflight[s].prov[i].search,
                                                 inflight[s].prov[i].quote)
                     ELSE get_single_stock_price(finnhub_client, None,
                                                 Some(identifier(inflight[s], i)),
                                                 inflight[s].prov[i].search,
                                                 inflight[s].prov[i].quote)} :
                MovedOn(s, i, BatchStep(loop_state(s), r), NoOutcome)

\* The loop is over: the batch function returns its dict (147-153, 171-177).
LoopEnd ==
    \E s \in Slots :
        /\ inflight[s].op \in BatchOps
        /\ inflight[s].outcome = NoOutcome
        /\ inflight[s].i = Len(inflight[s].prov)
        /\ MovedOn(s, inflight[s].i, inflight[s].st,
                   [kind |-> "return", value |-> BatchDict(loop_state(s))])

\* FinnhubService.get_quote from its first line to its return.
QuoteCall ==
    \E s \in Slots :
        /\ inflight[s].op = "FinnhubService.get_quote"
        /\ inflight[s].outcome = NoOutcome
        /\ \E r \in {get_quote(service_client, inflight[s].args.symbol,
                               inflight[s].prov[1].quote)} :
                MovedOn(s, 1, inflight[s].st,
                        [kind |-> r.kind,
                         value |-> IF r.kind = "return" THEN new_quote(s, r.value)
                                   ELSE r.value])

\* get_quote_by_company_name up to the companies it found (lines 208-213):
\* the search raised, found nothing, or gave the match to go on with.
CompanySearch ==
    \E s \in Slots :
        /\ inflight[s].op = "FinnhubService.get_quote_by_company_name"
        /\ inflight[s].outcome = NoOutcome
        /\ inflight[s].i = 0
        /\ \E companies \in {search_companies(service_client, inflight[s].args.company_name,
                                              inflight[s].prov[1].search)} :
                MovedOn(s, 1, companies,
                        IF companies.kind = "raise"
                        THEN [kind |-> "raise", value |-> companies.value]
                        ELSE IF companies.value = <<>>
                        THEN [kind |-> "raise",
                              value |-> CompanyNotFoundError(inflight[s].args.company_name)]
                        ELSE NoOutcome)

\* get_quote_by_company_name from the best match to its return (215-222):
\* the quote of the match, with the company name written into it.
CompanyQuote ==
    \E s \in Slots :
        /\ inflight[s].op = "FinnhubService.get_quote_by_company_name"
        /\ inflight[s].outcome = NoOutcome
        /\ inflight[s].i = 1
        /\ \E best_match \in {inflight[s].st.value[1]} :
           \E quote \in {get_quote(service_client, Some(best_match.symbol),
                                   inflight[s].prov[1].quote)} :
                MovedOn(s, 2, inflight[s].st,
                        IF quote.kind = "raise"
                        THEN [kind |-> "raise", value |-> quote.value]
                        ELSE [kind |-> "return",
                              value |-> [new_quote(s, quote.value) EXCEPT
                                            !.company_name = best_match.description]])

\* The caller has the result: the locals of the call are gone.
ReturnCall ==
    \E s \in Slots :
        /\ inflight[s].outcome # NoOutcome
        /\ inflight' = [inflight EXCEPT ![s] = NoCall]
        /\ UNCHANGED <<finnhub_client, service_client, pc, request, provider, calls, outcome>>

NextInterleaved ==
    \/ StartCall
    \/ SingleCall
    \/ LoopIteration
    \/ LoopEnd
    \/ QuoteCall
    \/ CompanySearch
    \/ CompanyQuote
    \/ ReturnCall

SpecInterleaved == Init /\ [][NextInterleaved]_vars

(***************************************************************************)
(* Vocabulary of the properties                                            *)
(***************************************************************************)
Done(op) == pc = "done" /\ request.op = op

ClientInitialized == finnhub_client # None


\* The identifier list of the batch request in hand.
Identifiers ==
    IF request.op = "get_multiple_stock_prices"
    THEN request.args.symbols
    ELSE request.args.company_names

\* The provider calls of the request that went to one client method.
CallsTo(fn) == SelectSeq(calls, LAMBDA c : c.fn = fn)

\* The list a symbol_lookup answer carries: empty when the answer has none.
RawMatches(sresp) ==
    IF sresp.raises \/ sresp.value = None \/ "result" \notin DOMAIN sresp.value[1]
       \/ sresp.value[1]["result"] = None
    THEN <<>>
    ELSE sresp.value[1]["result"][1]

\* The current price field c of a quote answer: None when absent or null.
ProviderPrice(qresp) ==
    IF qresp.raises \/ qresp.value = None THEN None ELSE Get(qresp.value[1], "c")

\* The text an identifier is expected to be normalized to: trimmed, upper case.
Trimmed(s) ==
    LET first == {i \in 1..Len(s) : s[i] # " "}
    IN  IF first = {}
        THEN <<>>
        ELSE LET lo == CHOOSE i \in first : \A j \in first : i <= j
                 hi == CHOOSE i \in first : \A j \in first : i >= j
             IN  [k \in 1..(hi - lo + 1) |-> s[lo + k - 1]]

UpperCaseOf(ch) ==
    IF ch = "a" THEN "A" ELSE IF ch = "b" THEN "B" ELSE IF ch = "c" THEN "C"
    ELSE IF ch = "d" THEN "D" ELSE ch

UpperCased(s) == [i \in 1..Len(s) |-> UpperCaseOf(s[i])]

Canonical(s) == UpperCased(Trimmed(s))

(***************************************************************************)
(* C1: a batch of N identifiers returns count = N = Len(stocks),           *)
(* successful = the number of entries whose price is not null and          *)
(* failed = N - successful, whatever the provider does per identifier.     *)
(***************************************************************************)
C1_BatchCounts ==
    (pc = "done" /\ request.op \in BatchOps) =>
        LET b == outcome.value
            N == Len(Identifiers)
        IN  /\ outcome.kind = "return"
            /\ b.count = N
            /\ Len(b.stocks) = N
            /\ b.successful =
                 Cardinality({i \in 1..Len(b.stocks) : Get(b.stocks[i], "price") # None})
            /\ b.failed = N - b.successful

\* A batch of three identifiers of which some succeed and some fail.
C1_Witness ==
    /\ pc = "done" /\ request.op \in BatchOps
    /\ Len(Identifiers) = 3
    /\ outcome.value.successful = 2
    /\ outcome.value.failed = 1

(***************************************************************************)
(* C2: an identifier that fails (no price, the provider call raises, no    *)
(* company match) never stops the batch: the batch returns, the failed     *)
(* identifier has exactly one entry, with an error, and every later        *)
(* identifier is still looked up and fetched from the provider.            *)
(***************************************************************************)
NonEmpty(s) == s # <<>>

C2_FailureDoesNotStopBatch ==
    (pc = "done" /\ request.op \in BatchOps) =>
        LET b == outcome.value
            ids == Identifiers
            N == Len(ids)
        IN  /\ outcome.kind = "return"
            /\ Len(b.stocks) = N
            /\ \A i \in 1..N :
                  Get(b.stocks[i], "price") = None => Get(b.stocks[i], "error") # None
            /\ (ClientInitialized /\ request.op = "get_multiple_stock_prices") =>
                  \* one quote call per non-empty symbol, in input order
                  [k \in 1..Len(calls) |-> calls[k].arg] =
                     [k \in 1..Len(SelectSeq(ids, NonEmpty)) |->
                         Some(Canonical(SelectSeq(ids, NonEmpty)[k]))]
            /\ (ClientInitialized /\ request.op = "get_multiple_company_prices") =>
                  \* one search per non-empty name, in input order, and one quote
                  \* call for every name that the search resolved
                  /\ [k \in 1..Len(CallsTo("symbol_lookup")) |-> CallsTo("symbol_lookup")[k].arg] =
                        [k \in 1..Len(SelectSeq(ids, NonEmpty)) |->
                            Some(SelectSeq(ids, NonEmpty)[k])]
                  /\ Len(CallsTo("quote")) =
                        Cardinality({i \in 1..N : /\ NonEmpty(ids[i])
                                                  /\ RawMatches(provider[i].search) # <<>>})
            /\ (/\ ClientInitialized
                /\ N = 3
                /\ \A i \in 1..N : NonEmpty(ids[i])
                /\ request.op = "get_multiple_company_prices" =>
                      \A i \in 1..N : RawMatches(provider[i].search) # <<>>
                /\ TruthyNum(ProviderPrice(provider[1].quote))
                /\ ProviderPrice(provider[2].quote) = None
                /\ TruthyNum(ProviderPrice(provider[3].quote))) =>
                  /\ b.count = 3 /\ b.successful = 2 /\ b.failed = 1
                  /\ Get(b.stocks[2], "error") # None
                  /\ Get(b.stocks[1], "price") # None
                  /\ Get(b.stocks[3], "price") # None

\* Three symbols, the second fails because the provider raises, the third is
\* still fetched and priced.
C2_Witness ==
    /\ Done("get_multiple_stock_prices")
    /\ ClientInitialized
    /\ Len(request.args.symbols) = 3
    /\ provider[2].quote.raises
    /\ Get(outcome.value.stocks[2], "error") # None
    /\ Len(calls) = 3
    /\ Get(outcome.value.stocks[3], "price") # None

(***************************************************************************)
(* C3: a batch result keeps the input order: stocks[i] is the single quote *)
(* result of the i-th identifier; in a symbol batch stocks[i].symbol is    *)
(* the trimmed upper-cased symbols[i] for every non-empty symbols[i],      *)
(* duplicates included.                                                    *)
(***************************************************************************)
C3_BatchPreservesOrder ==
    (pc = "done" /\ request.op \in BatchOps) =>
        LET b == outcome.value
            ids == Identifiers
        IN  /\ Len(b.stocks) = Len(ids)
            /\ \A i \in 1..Len(ids) :
                  b.stocks[i] =
                     IF request.op = "get_multiple_stock_prices"
                     THEN get_single_stock_price(finnhub_client, Some(ids[i]), None,
                                                 provider[i].search, provider[i].quote).value
                     ELSE get_single_stock_price(finnhub_client, None, Some(ids[i]),
                                                 provider[i].search, provider[i].quote).value
            /\ (ClientInitialized /\ request.op = "get_multiple_stock_prices") =>
                  \A i \in 1..Len(ids) :
                     NonEmpty(ids[i]) => Get(b.stocks[i], "symbol") = Some(Canonical(ids[i]))

\* A symbol batch that holds the same symbol twice, with different results,
\* and a third, different symbol.
C3_Witness ==
    /\ Done("get_multiple_stock_prices")
    /\ ClientInitialized
    /\ Len(request.args.symbols) = 3
    /\ request.args.symbols[1] = <<" ", "a", "b", " ">>
    /\ request.args.symbols[3] = request.args.symbols[1]
    /\ request.args.symbols[2] = <<"C", "D">>
    /\ Get(outcome.value.stocks[1], "price") # None
    /\ Get(outcome.value.stocks[3], "price") = None
    /\ Get(outcome.value.stocks[2], "symbol") = Some(<<"C", "D">>)

(***************************************************************************)
(* C4: a single quote result is success-shaped (price not null, no error)  *)
(* exactly when the provider's payload has a current price c that is       *)
(* present and not null, and then price = c; this for every value of c,    *)
(* 0 included, in server.get_single_stock_price and in                     *)
(* FinnhubService.get_quote. Refuted by get_single_stock_price at c = 0.   *)
(***************************************************************************)
C4_SuccessIffProviderPrice ==
    /\ (Done("get_single_stock_price") /\ CallsTo("quote") # <<>>) =>
          LET r == outcome.value
              c == ProviderPrice(provider[1].quote)
          IN  /\ (Get(r, "price") # None /\ Get(r, "error") = None) <=> (c # None)
              /\ c # None => Get(r, "price") = c
              /\ c = None => (Get(r, "price") = None /\ Get(r, "error") # None)
    /\ (Done("FinnhubService.get_quote") /\ CallsTo("quote") # <<>>) =>
          LET c == ProviderPrice(provider[1].quote)
          IN  /\ (outcome.kind = "return") <=> (c # None)
              /\ outcome.kind = "return" =>
                    (outcome.value.price = c /\ outcome.value.error = None)

(***************************************************************************)
(* C5: the three absorbed failures. ProviderTransportFailure: a provider   *)
(* call raised or answered with a malformed payload; SymbolHasNoData: the  *)
(* quote call answered without a price; CompanyNotFound: the search        *)
(* answered with zero matches.                                             *)
(***************************************************************************)
SearchCalled == CallsTo("symbol_lookup") # <<>>

QuoteCalled == CallsTo("quote") # <<>>

\* symbol_lookup raised, or its payload has a result that is no list.
SearchFailed(sresp) ==
    \/ sresp.raises
    \/ /\ sresp.value # None
       /\ "result" \in DOMAIN sresp.value[1]
       /\ sresp.value[1]["result"] = None

ProviderTransportFailure ==
    \/ SearchCalled /\ SearchFailed(provider[1].search)
    \/ QuoteCalled /\ provider[1].quote.raises

SymbolHasNoData ==
    QuoteCalled /\ ~provider[1].quote.raises /\ ProviderPrice(provider[1].quote) = None

CompanyNotFound ==
    SearchCalled /\ ~SearchFailed(provider[1].search) /\ RawMatches(provider[1].search) = <<>>

QuoteOperations ==
    {"get_single_stock_price", "FinnhubService.get_quote",
     "FinnhubService.get_quote_by_company_name"}

\* C5 as claimed: in each of the three cases every quote operation returns a
\* Quote-shaped value with price null and an error, and never raises.
C5_NeverRaised ==
    (pc = "done" /\ request.op \in QuoteOperations
        /\ (CompanyNotFound \/ SymbolHasNoData \/ ProviderTransportFailure)) =>
        /\ outcome.kind = "return"
        /\ Get(outcome.value, "price") = None
        /\ Get(outcome.value, "error") # None

\* C5 as amended: server.get_single_stock_price absorbs the three cases into
\* a Quote-shaped dict with price null and an error; FinnhubService.get_quote
\* and get_quote_by_company_name raise them: CompanyNotFoundError,
\* SymbolNotFoundError and FinnhubAPIError.
C5_AbsorbedByServerRaisedByService ==
    /\ (Done("get_single_stock_price")
          /\ (CompanyNotFound \/ SymbolHasNoData \/ ProviderTransportFailure)) =>
          /\ outcome.kind = "return"
          /\ {"symbol", "price", "error"} \subseteq DOMAIN outcome.value
          /\ outcome.value["price"] = None
          /\ outcome.value["error"] # None
    /\ (pc = "done" /\ request.op \in {"FinnhubService.get_quote",
                                       "FinnhubService.get_quote_by_company_name"}) =>
          /\ CompanyNotFound =>
                (outcome.kind = "raise" /\ outcome.value.type = "CompanyNotFoundError")
          /\ SymbolHasNoData =>
                (outcome.kind = "raise" /\ outcome.value.type = "SymbolNotFoundError")
          /\ ProviderTransportFailure =>
                (outcome.kind = "raise" /\ outcome.value.type = "FinnhubAPIError")

\* The search answers with zero matches and get_quote_by_company_name raises.
C5_Witness ==
    /\ Done("FinnhubService.get_quote_by_company_name")
    /\ CompanyNotFound
    /\ outcome.kind = "raise"
    /\ outcome.value.type = "CompanyNotFoundError"

(***************************************************************************)
(* C6: a quote requested by symbol hands the provider's quote call the     *)
(* input trimmed and upper-cased, never the raw string, and the symbol     *)
(* returned is that same normalized string.                                *)
(***************************************************************************)
C6_SymbolNormalizedBeforeProvider ==
    /\ (Done("get_single_stock_price") /\ ClientInitialized
          /\ TruthyStr(request.args.symbol)) =>
          /\ calls = <<Call("quote", Some(Canonical(request.args.symbol[1])))>>
          /\ Get(outcome.value, "symbol") = Some(Canonical(request.args.symbol[1]))
    /\ (Done("FinnhubService.get_quote") /\ TruthyStr(request.args.symbol)) =>
          /\ Len(calls) <= 1
          /\ \A k \in 1..Len(calls) :
                calls[k] = Call("quote", Some(Canonical(request.args.symbol[1])))
          /\ Canonical(request.args.symbol[1]) # <<>> => Len(calls) = 1
          /\ outcome.kind = "return" =>
                outcome.value.symbol = Canonical(request.args.symbol[1])

\* A lower-case symbol with surrounding blanks was quoted.
C6_Witness ==
    /\ Done("get_single_stock_price")
    /\ request.args.symbol = Some(<<" ", "a", "b", " ">>)
    /\ calls = <<Call("quote", Some(<<"A", "B">>))>>
    /\ Get(outcome.value, "symbol") = Some(<<"A", "B">>)
    /\ Get(outcome.value, "price") # None

(***************************************************************************)
(* C7: get_stock_price dispatches by one fixed precedence: more than one   *)
(* company name, one company name, more than one symbol, one symbol, the   *)
(* (symbol, company_name) pair; lower arguments are ignored and an empty   *)
(* list counts as not supplied.                                            *)
(***************************************************************************)
\* The number of elements of an Optional list: 0 for None.
Supplied(o) == IF o = None THEN 0 ELSE Len(o[1])

ByPrecedence(a, prov) ==
    CASE Supplied(a.company_names) > 1 ->
            get_multiple_company_prices(finnhub_client, a.company_names[1], prov)
      [] Supplied(a.company_names) = 1 ->
            get_single_stock_price(finnhub_client, None, Some(a.company_names[1][1]),
                                   prov[1].search, prov[1].quote)
      [] Supplied(a.company_names) = 0 /\ Supplied(a.symbols) > 1 ->
            get_multiple_stock_prices(finnhub_client, a.symbols[1], prov)
      [] Supplied(a.company_names) = 0 /\ Supplied(a.symbols) = 1 ->
            get_single_stock_price(finnhub_client, Some(a.symbols[1][1]), None,
                                   prov[1].search, prov[1].quote)
      [] OTHER ->
            get_single_stock_price(finnhub_client, a.symbol, a.company_name,
                                   prov[1].search, prov[1].quote)

C7_DispatchPrecedence ==
    /\ (Done("get_stock_price") /\ ClientInitialized) =>
          /\ outcome.value = ByPrecedence(request.args, provider).value
          /\ calls = ByPrecedence(request.args, provider).calls
    /\ (Done("call_tool") /\ request.args.tool = "get_stock_price") =>
          /\ outcome.kind = "return"
          /\ outcome.value.result = ByPrecedence(request.args.arguments, provider).value
          /\ calls = ByPrecedence(request.args.arguments, provider).calls

\* All four arguments are supplied and the two company names win.
C7_Witness ==
    /\ Done("get_stock_price")
    /\ ClientInitialized
    /\ request.args.symbol # None /\ request.args.company_name # None
    /\ Supplied(request.args.symbols) = 2
    /\ Supplied(request.args.company_names) = 2
    /\ "stocks" \in DOMAIN outcome.value
    /\ Len(CallsTo("symbol_lookup")) = 2
    /\ outcome.value.successful = 1

(***************************************************************************)
(* C8: with neither a symbol nor a company name (both absent or empty)     *)
(* get_single_stock_price returns a failure that carries an error and no   *)
(* quote field (no symbol, no price) and makes no provider call.           *)
(***************************************************************************)
C8_MissingIdentifier ==
    (Done("get_single_stock_price")
        /\ request.args.symbol \in {None, Some(<<>>)}
        /\ request.args.company_name \in {None, Some(<<>>)}) =>
        /\ outcome.kind = "return"
        /\ Get(outcome.value, "error") # None
        /\ "symbol" \notin DOMAIN outcome.value
        /\ "price" \notin DOMAIN outcome.value
        /\ calls = <<>>

\* An initialized client, an empty symbol and no company name.
C8_Witness ==
    /\ Done("get_single_stock_price")
    /\ ClientInitialized
    /\ request.args.symbol = Some(<<>>)
    /\ request.args.company_name = None
    /\ outcome.value["error"] = Some(Err("No symbol or company name provided", None))

C10_FirstMatchWins ==
    /\ (Done("get_single_stock_price") /\ ClientInitialized
          /\ ~TruthyStr(request.args.symbol) /\ TruthyStr(request.args.company_name)
          /\ RawMatches(provider[1].search) # <<>>) =>
          LET first == RawMatches(provider[1].search)[1]
          IN  /\ CallsTo("quote") = <<Call("quote", Get(first, "symbol"))>>
              /\ Get(outcome.value, "symbol") = Get(first, "symbol")
              /\ Get(outcome.value, "company_name") = Get(first, "description")
    /\ (Done("FinnhubService.get_quote_by_company_name")
          /\ search_companies(service_client, request.args.company_name,
                              provider[1].search).kind = "return"
          /\ search_companies(service_client, request.args.company_name,
                              provider[1].search).value # <<>>) =>
          LET first == search_companies(service_client, request.args.company_name,
                                        provider[1].search).value[1]
          IN  /\ Len(CallsTo("quote")) <= 1
              /\ \A k \in 1..Len(CallsTo("quote")) :
                    CallsTo("quote")[k].arg = Some(first.symbol)
              /\ first.symbol # <<>> => Len(CallsTo("quote")) = 1
              /\ outcome.kind = "return" =>
                    /\ outcome.value.symbol = first.symbol
                    /\ outcome.value.company_name = first.description
    /\ (Done("get_single_stock_price") /\ ClientInitialized
          /\ TruthyStr(request.args.symbol)) =>
          Get(outcome.value, "company_name") = None
    /\ (Done("FinnhubService.get_quote") /\ outcome.kind = "return") =>
          outcome.value.company_name = None

\* Two matches, AB first: AB is quoted, CD is not, and the name is AB's.
C10_Witness ==
    /\ Done("get_single_stock_price")
    /\ RawMatches(provider[1].search) = <<MatchAB, MatchCD>>
    /\ CallsTo("quote") = <<Call("quote", Some(<<"A", "B">>))>>
    /\ Get(outcome.value, "company_name") = MatchAB.description
    /\ Get(outcome.value, "price") # None

(***************************************************************************)
(* C11: with the provider client never initialized, every quote entry      *)
(* point (the get_stock_price tool, get_single_stock_price, the two batch  *)
(* functions and the REST dispatch of get_stock_price) surfaces one        *)
(* structured failure: an error, no quote object, no batch of per-item     *)
(* results, and no provider call. Refuted by the batch functions.          *)
(***************************************************************************)
QuoteEntryPoints ==
    {"get_stock_price", "get_single_stock_price", "get_multiple_stock_prices",
     "get_multiple_company_prices"}

\* A dict that carries an error and neither a quote nor a batch.
StructuredFailure(v) ==
    /\ Get(v, "error") # None
    /\ DOMAIN v \cap {"symbol", "price", "stocks"} = {}

C11_ServiceUnavailable ==
    /\ (pc = "done" /\ ~ClientInitialized /\ request.op \in QuoteEntryPoints) =>
          /\ outcome.kind = "return"
          /\ StructuredFailure(outcome.value)
          /\ calls = <<>>
    /\ (Done("call_tool") /\ ~ClientInitialized /\ request.args.tool = "get_stock_price") =>
          /\ outcome.kind = "return"
          /\ StructuredFailure(outcome.value.result)
          /\ calls = <<>>

(***************************************************************************)
(* C12: a company search with an empty or whitespace-only query returns    *)
(* an empty sequence and makes no provider call, in                        *)
(* FinnhubService.search_companies and in server.search_company_by_name,   *)
(* also when reached through get_single_stock_price. Refuted by            *)
(* search_company_by_name, which has no such test.                         *)
(***************************************************************************)
C12_BlankQueryNoProviderCall ==
    /\ (Done("search_company") /\ Trimmed(request.args.company_name) = <<>>) =>
          /\ outcome.value = <<>>
          /\ calls = <<>>
    /\ (Done("FinnhubService.search_companies") /\ request.args.query # None
          /\ Trimmed(request.args.query[1]) = <<>>) =>
          /\ outcome.kind = "return"
          /\ outcome.value = <<>>
          /\ calls = <<>>
    /\ (Done("get_single_stock_price") /\ ~TruthyStr(request.args.symbol)
          /\ TruthyStr(request.args.company_name)
          /\ Trimmed(request.args.company_name[1]) = <<>>) =>
          calls = <<>>

(***************************************************************************)
(* C13: when the provider's symbol_lookup raises, the company search       *)
(* returns an empty sequence and does not raise.                           *)
(***************************************************************************)
SearchRaised == SearchCalled /\ provider[1].search.raises

\* C13 as claimed: so in server.search_company_by_name and in
\* FinnhubService.search_companies.
C13_SearchFailureGivesEmpty ==
    (pc = "done" /\ request.op \in {"search_company", "FinnhubService.search_companies"}
        /\ SearchRaised) =>
        /\ outcome.kind = "return"
        /\ outcome.value = <<>>

\* C13 as amended: server.search_company_by_name returns an empty sequence
\* and does not raise; FinnhubService.search_companies raises FinnhubAPIError.
C13_ServerEmptyServiceRaises ==
    /\ (Done("search_company") /\ SearchRaised) =>
          /\ outcome.kind = "return"
          /\ outcome.value = <<>>
    /\ (Done("FinnhubService.search_companies") /\ SearchRaised) =>
          /\ outcome.kind = "raise"
          /\ outcome.value.type = "FinnhubAPIError"

\* symbol_lookup raised under search_company_by_name, which returned [].
C13_Witness ==
    /\ Done("search_company")
    /\ SearchRaised
    /\ calls = <<Call("symbol_lookup", Some(<<"A", "b">>))>>
    /\ outcome.value = <<>>

(***************************************************************************)
(* C14: a successful provider search gives exactly one CompanyMatch per    *)
(* well-formed provider match, in the provider's order; a match that lacks *)
(* a symbol is skipped and never appears in the result. Refuted by         *)
(* search_company_by_name, which maps every match.                         *)
(***************************************************************************)
\* A provider match that has a symbol: the key is there, not null, not "".
WellFormed(match) == TruthyStr(Get(match, "symbol"))

SearchSucceeded == SearchCalled /\ ~SearchFailed(provider[1].search)

C14_MalformedMatchesSkipped ==
    (pc = "done" /\ request.op \in {"search_company", "FinnhubService.search_companies"}
        /\ SearchSucceeded) =>
        LET wf == SelectSeq(RawMatches(provider[1].search), WellFormed)
        IN  /\ outcome.kind = "return"
            /\ Len(outcome.value) = Len(wf)
            /\ \A k \in 1..Len(wf) :
                  outcome.value[k].description = Get(wf[k], "description")

(***************************************************************************)
(* C15: every symbol carried by a returned Quote or CompanyMatch is        *)
(* non-empty and equal to its own trimmed upper-cased form, whitespace-    *)
(* only input symbols and blank or lower-case provider symbols included.   *)
(* Refuted by a whitespace-only symbol, which is carried as "".            *)
(***************************************************************************)
CanonicalSymbol(s) == s # <<>> /\ s = Canonical(s)

\* The symbol of a dict of server.py is canonical when it has one.
CanonicalIn(d) == Get(d, "symbol") # None => CanonicalSymbol(d["symbol"][1])

C15_SymbolsCanonical ==
    /\ Done("get_single_stock_price") => CanonicalIn(outcome.value)
    /\ (pc = "done" /\ request.op \in BatchOps) =>
          \A i \in 1..Len(outcome.value.stocks) : CanonicalIn(outcome.value.stocks[i])
    /\ Done("search_company") =>
          \A i \in 1..Len(outcome.value) : CanonicalIn(outcome.value[i])
    /\ (pc = "done" /\ outcome.kind = "return"
          /\ request.op \in {"FinnhubService.get_quote",
                             "FinnhubService.get_quote_by_company_name"}) =>
          CanonicalSymbol(outcome.value.symbol)
    /\ (Done("FinnhubService.search_companies") /\ outcome.kind = "return") =>
          \A i \in 1..Len(outcome.value) : CanonicalSymbol(outcome.value[i].symbol)

(***************************************************************************)
(* C16: StockPriceData.change is price - previous_close when both are      *)
(* present and null otherwise; change_percent is (price - previous_close)  *)
(* / previous_close * 100 when both are present and previous_close is not  *)
(* 0, and null when previous_close is 0 or absent or price is absent;      *)
(* neither raises a division-by-zero error.                                *)
(***************************************************************************)
\* Both prices of the StockPriceData in hand are present.
BothPresent == request.args.self.price # None /\ request.args.self.previous_close # None

C16_ChangeAndChangePercent ==
    /\ Done("StockPriceData.change") =>
          /\ outcome.kind = "return"
          /\ BothPresent =>
                /\ outcome.value # None
                /\ outcome.value[1] + request.args.self.previous_close[1]
                      = request.args.self.price[1]
          /\ ~BothPresent => outcome.value = None
    /\ Done("StockPriceData.change_percent") =>
          /\ outcome.kind = "return"
          /\ (BothPresent /\ request.args.self.previous_close[1] # 0) =>
                /\ outcome.value # None
                /\ outcome.value[1].den # 0
                \* value = (price - previous_close) / previous_close * 100
                /\ outcome.value[1].num * request.args.self.previous_close[1]
                      = (request.args.self.price[1] - request.args.self.previous_close[1])
                            * 100 * outcome.value[1].den
          /\ ~(BothPresent /\ request.args.self.previous_close[1] # 0) =>
                outcome.value = None

\* change_percent was asked of a StockPriceData whose previous_close is 0 and
\* whose price is not: it gave null.
C16_Witness ==
    /\ Done("StockPriceData.change_percent")
    /\ request.args.self.price = Some(5)
    /\ request.args.self.previous_close = Some(0)
    /\ outcome = [kind |-> "return", value |-> None]

(***************************************************************************)
(* C17: on a successful quote, price, high, low, open, previous_close and  *)
(* timestamp equal the provider's c, h, l, o, pc and t unchanged; each of  *)
(* high, low, open, previous_close and timestamp is null exactly when the  *)
(* provider's field is absent or null, independently of the others, and    *)
(* currency is always USD.                                                 *)
(***************************************************************************)
\* What the provider's quote payload holds under key: null when the key is
\* absent or its value is null.
ProviderField(key) ==
    LET payload == provider[1].quote.value[1]
    IN  IF key \in DOMAIN payload THEN payload[key] ELSE None

PassedThrough(q) ==
    /\ q.price = ProviderField("c")
    /\ q.high = ProviderField("h")
    /\ q.low = ProviderField("l")
    /\ q.open = ProviderField("o")
    /\ q.previous_close = ProviderField("pc")
    /\ q.timestamp = ProviderField("t")

C17_ProviderFieldsUnchanged ==
    /\ (Done("get_single_stock_price") /\ Get(outcome.value, "price") # None) =>
          /\ PassedThrough(outcome.value)
          /\ outcome.value.currency = Some(USD)
    /\ (pc = "done" /\ outcome.kind = "return"
          /\ request.op \in {"FinnhubService.get_quote",
                             "FinnhubService.get_quote_by_company_name"}) =>
          /\ PassedThrough(outcome.value)
          /\ outcome.value.currency = USD

\* A successful quote from a payload whose high is null, whose open is
\* absent and whose low and previous close are present.
C17_Witness ==
    /\ Done("get_single_stock_price")
    /\ provider[1].quote = Answers(Some(QuotePartial))
    /\ Get(outcome.value, "price") = Some(5)
    /\ outcome.value.high = None
    /\ outcome.value.open = None
    /\ outcome.value.low = Some(4)
    /\ outcome.value.previous_close = Some(0)

(***************************************************************************)
(* C18: every health check (FinnhubService.health_check and the route      *)
(* GET /health) issues exactly one provider quote call for the fixed       *)
(* symbol AAPL, reports healthy with a response time when that call        *)
(* succeeds, reports unhealthy with a reason when the call raises or the   *)
(* client is not initialized, and never raises itself.                     *)
(***************************************************************************)
OneQuoteOfAAPL == calls = <<[fn |-> "quote", arg |-> Some(<<"A", "A", "P", "L">>)]>>

\* What FinnhubService.health_check reports after its one call.
ServiceHealthReport ==
    Done("FinnhubService.health_check") =>
        /\ outcome.kind = "return"
        /\ OneQuoteOfAAPL
        /\ ~provider[1].quote.raises =>
              /\ outcome.value.status = "healthy"
              /\ outcome.value.response_time_ms # None
        /\ provider[1].quote.raises =>
              /\ outcome.value.status = "unhealthy"
              /\ outcome.value.message.detail = Some(provider[1].quote.exc)
              /\ outcome.value.response_time_ms = None

\* C18 as claimed: the route calls the provider as the service method does,
\* and reports unhealthy when the client is not initialized.
C18_EveryHealthCheckCallsProvider ==
    /\ ServiceHealthReport
    /\ Done("health_check") =>
          /\ outcome.kind = "return"
          /\ IF ClientInitialized
             THEN OneQuoteOfAAPL
             ELSE outcome.value.status = "unhealthy"

\* C18 as amended: FinnhubService.health_check does what is claimed; the
\* route GET /health makes no provider call and always reports healthy, with
\* finnhub "connected" or "not_configured" by whether the client is there.
C18_ServiceCallsProviderRouteDoesNot ==
    /\ ServiceHealthReport
    /\ Done("health_check") =>
          /\ outcome.kind = "return"
          /\ calls = <<>>
          /\ outcome.value.status = "healthy"
          /\ outcome.value.finnhub =
                (IF ClientInitialized THEN "connected" ELSE "not_configured")

\* The provider's quote raised under FinnhubService.health_check, which
\* reported unhealthy after its one call.
C18_Witness ==
    /\ Done("FinnhubService.health_check")
    /\ provider[1].quote.raises
    /\ OneQuoteOfAAPL
    /\ outcome.kind = "return"
    /\ outcome.value.status = "unhealthy"

(***************************************************************************)
(* C19: an HTTP error raised while dispatching POST /mcp/tools/call        *)
(* reaches the client with its own status code: a tool name other than     *)
(* get_stock_price and search_company is answered with 404, a              *)
(* search_company call without company_name with 400; neither is turned    *)
(* into another status and neither makes a provider call. Refuted: both    *)
(* are answered with 500.                                                  *)
(***************************************************************************)
\* The route answered with this HTTP status and made no provider call.
AnsweredWithStatus(status_code) ==
    /\ outcome.kind = "raise"
    /\ outcome.value.type = "HTTPException"
    /\ outcome.value.status_code = status_code
    /\ calls = <<>>

KnownTools == {"get_stock_price", "search_company"}

C19_HTTPErrorKeepsStatus ==
    /\ (Done("call_tool") /\ request.args.tool \notin KnownTools) =>
          AnsweredWithStatus(404)
    /\ (Done("call_tool") /\ request.args.tool = "search_company"
          /\ ~TruthyStr(request.args.arguments.company_name)) =>
          AnsweredWithStatus(400)

(***************************************************************************)
(* C20: for every list of at least 2 symbols and every provider behaviour, *)
(* the compare_stocks prompt (server.compare_stocks and POST               *)
(* /mcp/prompts/get) returns normally a prompt text that names every       *)
(* requested symbol, with one table row per symbol in input order, also    *)
(* for symbols whose quote failed. Refuted: a failed quote has no price    *)
(* and formatting the row raises.                                          *)
(***************************************************************************)
\* The table has one row per requested symbol, in the order of the request.
OneRowPerSymbol(table, symbols) ==
    /\ Len(table) = Len(symbols)
    /\ \A i \in 1..Len(symbols) : table[i].symbol = Canonical(symbols[i])

C20_ComparePromptAlwaysReturns ==
    /\ (Done("compare_stocks") /\ Len(request.args.symbols) >= 2) =>
          /\ outcome.kind = "return"
          /\ OneRowPerSymbol(outcome.value.table, request.args.symbols)
    /\ (Done("get_prompt") /\ request.args.prompt = "compare_stocks"
          /\ request.args.arguments.symbols # None
          /\ Len(request.args.arguments.symbols[1]) >= 2) =>
          /\ outcome.kind = "return"
          /\ OneRowPerSymbol(outcome.value.prompt.table,
                             request.args.arguments.symbols[1])

(***************************************************************************)
(* C21: for every non-empty symbol and every provider response, the        *)
(* analyze_stock_performance prompt (server.analyze_stock_performance and  *)
(* POST /mcp/prompts/get) returns a text naming the symbol and never       *)
(* raises: "Unable to analyze" when the quote carries an error, otherwise  *)
(* the analysis text, whichever of high, low and previous_close the        *)
(* provider left out. Refuted: a quote with a price and no high, low or    *)
(* previous close makes the formatting raise.                              *)
(***************************************************************************)
AnalysisTexts == {"Unable to analyze", "Analyze the stock performance for"}

\* The prompt text v names symbol and is one of the two texts.
NamesSymbol(v, symbol) == v.symbol = symbol /\ v.text \in AnalysisTexts

C21_AnalyzePromptNeverRaises ==
    /\ (Done("analyze_stock_performance") /\ request.args.symbol # <<>>) =>
          /\ outcome.kind = "return"
          /\ NamesSymbol(outcome.value, request.args.symbol)
    /\ (Done("get_prompt") /\ request.args.prompt = "analyze_stock_performance"
          /\ TruthyStr(request.args.arguments.symbol)) =>
          /\ outcome.kind = "return"
          /\ NamesSymbol(outcome.value.prompt, request.args.arguments.symbol[1])

(***************************************************************************)
(* C22: GET /mcp/resources/{uri} matches the URI after adding the          *)
(* market:// prefix when it is missing: "popular-stocks" and               *)
(* "market://popular-stocks" give the same fixed list of 10 stocks,        *)
(* "indices" and "market://indices" the same fixed list of 4 indices;      *)
(* every other URI is answered with 404 and never 500; no resource request *)
(* makes a provider call.                                                  *)
(***************************************************************************)
PopularStocksURIs ==
    {<<"p", "o", "p", "u", "l", "a", "r", "-", "s", "t", "o", "c", "k", "s">>,
     <<"m", "a", "r", "k", "e", "t", ":", "/", "/", "p", "o", "p", "u", "l", "a", "r", "-", "s", "t", "o", "c", "k", "s">>}

IndicesURIs ==
    {<<"i", "n", "d", "i", "c", "e", "s">>,
     <<"m", "a", "r", "k", "e", "t", ":", "/", "/", "i", "n", "d", "i", "c", "e", "s">>}

C22_ResourceByURI ==
    Done("get_resource") =>
        /\ calls = <<>>
        /\ request.args.resource_uri \in PopularStocksURIs =>
              /\ outcome.kind = "return"
              /\ Len(outcome.value.data) = 10
              /\ outcome.value.data[1].symbol = "AAPL"
              /\ outcome.value.data[10].symbol = "WMT"
        /\ request.args.resource_uri \in IndicesURIs =>
              /\ outcome.kind = "return"
              /\ Len(outcome.value.data) = 4
              /\ outcome.value.data[1].symbol = "^GSPC"
              /\ outcome.value.data[4].symbol = "^RUT"
        /\ request.args.resource_uri \notin PopularStocksURIs \cup IndicesURIs =>
              /\ outcome.kind = "raise"
              /\ outcome.value.type = "HTTPException"
              /\ outcome.value.status_code = 404

\* The indices were asked for without the prefix and came back.
C22_Witness ==
    /\ Done("get_resource")
    /\ request.args.resource_uri = <<"i", "n", "d", "i", "c", "e", "s">>
    /\ outcome.kind = "return"
    /\ Len(outcome.value.data) = 4

(***************************************************************************)
(* C23: a streaming tool call, POST /mcp/tools/call/stream with a known    *)
(* tool, is answered with status 200 and emits the events start, then      *)
(* result, then done, in that order, with done as the last event.          *)
(* Refuted: http_server.py registers no such route.                        *)
(***************************************************************************)
\* The request in hand is a POST of a known tool to /mcp/tools/call/stream.
StreamingToolCall ==
    /\ Done("app")
    /\ request.args.method = "POST"
    /\ request.args.path = <<"mcp", "tools", "call", "stream">>
    /\ request.args.body.tool \in KnownTools

C23_StreamEmitsStartResultDone ==
    StreamingToolCall =>
        /\ outcome.kind = "return"
        /\ outcome.value.events = <<"start", "result", "done">>

(***************************************************************************)
(* C24: each FinnhubService operation raises only the exception types its  *)
(* docstring lists, for every input string and every provider behaviour:   *)
(* search_companies only ServiceUnavailableError or FinnhubAPIError;       *)
(* get_quote only ServiceUnavailableError, SymbolNotFoundError or          *)
(* FinnhubAPIError; get_quote_by_company_name only CompanyNotFoundError or *)
(* FinnhubAPIError.                                                        *)
(***************************************************************************)
\* The service method op raised, if it raised, one of the types.
RaisesOnly(op, types) ==
    (Done(op) /\ outcome.kind = "raise") => outcome.value.type \in types

NotBlank(o) == o # None /\ Trimmed(o[1]) # <<>>

OneQuoteNoSearch ==
    /\ CallsTo("symbol_lookup") = <<>>
    /\ Len(CallsTo("quote")) = 1

SearchThenAtMostOneQuote ==
    /\ Len(calls) \in {1, 2}
    /\ calls[1].fn = "symbol_lookup"
    /\ Len(calls) = 2 => calls[2].fn = "quote"

C25_ProviderCallsPerResolution ==
    /\ (Done("get_single_stock_price") /\ ClientInitialized
          /\ TruthyStr(request.args.symbol)) => OneQuoteNoSearch
    /\ (Done("FinnhubService.get_quote") /\ NotBlank(request.args.symbol)) =>
          OneQuoteNoSearch
    /\ (Done("get_single_stock_price") /\ ClientInitialized
          /\ ~TruthyStr(request.args.symbol)
          /\ TruthyStr(request.args.company_name)) => SearchThenAtMostOneQuote
    /\ (Done("FinnhubService.get_quote_by_company_name")
          /\ NotBlank(request.args.company_name)) => SearchThenAtMostOneQuote

\* A symbol and a company name were supplied together: one quote call for
\* the symbol and no search.
C25_Witness ==
    /\ Done("get_single_stock_price")
    /\ ClientInitialized
    /\ request.args.symbol = Some(<<"c", "D">>)
    /\ request.args.company_name = Some(<<"A", "b">>)
    /\ calls = <<[fn |-> "quote", arg |-> Some(<<"C", "D">>)]>>

(***************************************************************************)
(* C26: in a batch, provider calls happen strictly in input order and      *)
(* never overlap: every provider call made for identifier i (the search,   *)
(* then the quote) has returned before the first provider call for         *)
(* identifier i+1 starts, and within one identifier the search precedes    *)
(* the quote. The log of calls is the per-identifier logs one after the    *)
(* other, in input order; a call is in the log once it has returned.       *)
(***************************************************************************)
\* The provider calls identifier i of the batch in hand is due.
CallsDueFor(i) ==
    LET id == Identifiers[i]
        matches == RawMatches(provider[i].search)
    IN  IF id = <<>>
        THEN <<>>
        ELSE IF request.op = "get_multiple_stock_prices"
        THEN <<[fn |-> "quote", arg |-> Some(Canonical(id))]>>
        ELSE <<[fn |-> "symbol_lookup", arg |-> Some(id)]>> \o
             (IF SearchFailed(provider[i].search) \/ matches = <<>>
              THEN <<>>
              ELSE <<[fn |-> "quote", arg |-> matches[1]["symbol"]]>>)

RECURSIVE CallsDueUpTo(_)
CallsDueUpTo(i) == IF i = 0 THEN <<>> ELSE CallsDueUpTo(i - 1) \o CallsDueFor(i)

C26_BatchCallsInInputOrder ==
    (pc = "done" /\ request.op \in BatchOps /\ ClientInitialized) =>
        calls = CallsDueUpTo(Len(Identifiers))

\* Two company names, each searched and then quoted, one after the other.
C26_Witness ==
    /\ Done("get_multiple_company_prices")
    /\ ClientInitialized
    /\ Len(request.args.company_names) = 2
    /\ [k \in 1..Len(calls) |-> calls[k].fn] =
          <<"symbol_lookup", "quote", "symbol_lookup", "quote">>

(***************************************************************************)
(* C27: every result of get_single_stock_price has a price that is null or *)
(* absent exactly when its error is non-null: no result carries both a     *)
(* non-null price and an error, and no result carries neither.             *)
(***************************************************************************)
C27_PriceXorError ==
    Done("get_single_stock_price") =>
        /\ outcome.kind = "return"
        /\ (Get(outcome.value, "price") = None) <=> (Get(outcome.value, "error") # None)

\* The provider answered with a price of 0: the result has an error and a
\* null price.
C27_Witness ==
    /\ Done("get_single_stock_price")
    /\ QuoteCalled
    /\ provider[1].quote = Answers(Some(QuoteZero))
    /\ "price" \in DOMAIN outcome.value
    /\ outcome.value["price"] = None
    /\ Get(outcome.value, "error") # None

(***************************************************************************)
(* C28, C29: calls under way at the same time                              *)
(***************************************************************************)
\* What the call of slot record c gives when nothing else runs: the whole
\* function applied to the arguments and the provider's answers of c.
RunAlone(c) ==
    CASE c.op = "get_single_stock_price" ->
            [kind |-> "return",
             value |-> get_single_stock_price(finnhub_client, c.args.symbol,
                                              c.args.company_name, c.prov[1].search,
                                              c.prov[1].quote).value]
      [] c.op = "get_multiple_stock_prices" ->
            [kind |-> "return",
             value |-> get_multiple_stock_prices(finnhub_client, c.args.symbols, c.prov).value]
      [] c.op = "get_multiple_company_prices" ->
            [kind |-> "return",
             value |-> get_multiple_company_prices(finnhub_client, c.args.company_names,
                                                   c.prov).value]
      [] c.op = "FinnhubService.get_quote" ->
            LET r == get_quote(service_client, c.args.symbol, c.prov[1].quote)
            IN  [kind |-> r.kind, value |-> r.value]
      [] c.op = "FinnhubService.get_quote_by_company_name" ->
            LET r == get_quote_by_company_name(service_client, c.args.company_name,
                                               c.prov[1].search, c.prov[1].quote)
            IN  [kind |-> r.kind, value |-> r.value]

\* The call of slot s has ended.
Ended(s) == inflight[s].outcome # NoOutcome

QuoteCalls ==
    {"get_single_stock_price", "FinnhubService.get_quote",
     "FinnhubService.get_quote_by_company_name"}

\* C28: a quote operation that ran while or after another call ran gives what
\* it gives alone, so two calls with the same arguments and the same provider
\* answers give the same result, whatever ran before them; a quote for a
\* symbol carries a company_name exactly when its own call wrote one.
C28_QuoteCallsRepeatable ==
    /\ \A s \in Slots :
            inflight[s].op \in QuoteCalls /\ Ended(s)
                => inflight[s].outcome = RunAlone(inflight[s])
    /\ (/\ Ended(1) /\ Ended(2)
        /\ inflight[1].op \in QuoteCalls
        /\ inflight[1].op = inflight[2].op
        /\ inflight[1].args = inflight[2].args
        /\ inflight[1].prov = inflight[2].prov)
            => inflight[1].outcome = inflight[2].outcome

\* get_quote_by_company_name has returned the quote of AB with the company
\* name in it, and a get_quote for AB with the same provider answer that
\* ended beside it has the same price and no company name.
C28_Witness ==
    /\ inflight[1].op = "FinnhubService.get_quote_by_company_name"
    /\ Ended(1)
    /\ inflight[1].outcome.kind = "return"
    /\ inflight[1].outcome.value.symbol = <<"A", "B">>
    /\ inflight[1].outcome.value.company_name = Some(<<"A", "b", " ", "I", "n", "c">>)
    /\ inflight[2].op = "FinnhubService.get_quote"
    /\ Ended(2)
    /\ inflight[2].outcome.kind = "return"
    /\ inflight[2].outcome.value.symbol = <<"A", "B">>
    /\ inflight[2].outcome.value.company_name = None
    /\ inflight[2].outcome.value.price = inflight[1].outcome.value.price

\* No step touches the provider client handles.
ClientsKept == finnhub_client' = finnhub_client /\ service_client' = service_client

ServerCalls ==
    {"get_single_stock_price", "get_multiple_stock_prices", "get_multiple_company_prices"}

\* C29: whatever the order in which the steps of two requests follow one
\* another, each request ends with the result it gives when run alone
\* against the same provider answers, and no step modifies the client handle.
C29_InterleavedAsAlone ==
    /\ [](\A s \in Slots :
            inflight[s].op \in ServerCalls /\ Ended(s)
                => inflight[s].outcome = RunAlone(inflight[s]))
    /\ [][ClientsKept]_vars

\* A batch of two symbols has processed its first symbol and not yet its
\* second, and meanwhile a batch of two company names has run to its end.
C29_Witness ==
    /\ inflight[1].op = "get_multiple_stock_prices"
    /\ Len(inflight[1].prov) = 2
    /\ inflight[1].i = 1
    /\ ~Ended(1)
    /\ inflight[2].op = "get_multiple_company_prices"
    /\ Len(inflight[2].prov) = 2
    /\ Ended(2)
    /\ inflight[2].outcome.value.count = 2

(***************************************************************************)
(* C30: the tool get_stock_price and the REST dispatch                     *)
(***************************************************************************)
\* What the MCP tool get_stock_price gives for the arguments and the
\* provider answers of the REST request in hand.
ToolOnSameRequest ==
    get_stock_price(finnhub_client, request.args.arguments.symbol,
                    request.args.arguments.company_name, request.args.arguments.symbols,
                    request.args.arguments.company_names, provider)

\* C30: for every combination of the four arguments, every provider
\* behaviour and either state of the client, POST /mcp/tools/call with tool
\* get_stock_price returns as its result what the MCP tool get_stock_price
\* returns for the same arguments, after the same provider calls.
C30_RestDispatchAsTool ==
    (Done("call_tool") /\ request.args.tool = "get_stock_price") =>
        /\ outcome.kind = "return"
        /\ outcome.value.result = ToolOnSameRequest.value
        /\ calls = ToolOnSameRequest.calls
====
